---- MODULE Spec2Model ----
(***************************************************************************)
(* Model of the MediaProcessor orchestrator (src/src/core/MediaProcessor.js)*)
(* together with the parts of AudioProcessor / VideoProcessor and of the    *)
(* EventEmitter that the orchestrator drives.                               *)
(*                                                                          *)
(* JavaScript values are encoded as tagged records; objects keep their key  *)
(* insertion order (a sequence of key/value pairs) because configChanged    *)
(* compares JSON.stringify output, which depends on that order.             *)
(* Every `await` of the source is a scheduling point: the code between two  *)
(* awaits is one atomic action.                                             *)
(***************************************************************************)
EXTENDS Integers, Sequences, FiniteSets, TLC

(***************************************************************************)
(* Bounds of the model                                                      *)
(***************************************************************************)
MaxUpdates == 1

MaxProcess == 1
\* process() calls of one MediaProcessor in OverlapSpec
MaxOverlap == 2

MaxListeners == 1

(***************************************************************************)
(* JavaScript values                                                        *)
(***************************************************************************)
Undefined == [k |-> "undefined"]

Null == [k |-> "null"]

Bool(b) == [k |-> "boolean", b |-> b]

Num(n) == [k |-> "number", n |-> n]

Str(s) == [k |-> "string", s |-> s]

Arr(a) == [k |-> "array", a |-> a]

Obj(o) == [k |-> "object", o |-> o]

KV(key, val) == [key |-> key, val |-> val]

\* JavaScript truthiness (numbers are kept as their literal text)
Truthy(v) ==
  CASE v.k = "boolean" -> v.b
    [] v.k = "number" -> v.n \notin {"0", "NaN"}
    [] v.k = "string" -> Len(v.s) > 0
    [] v.k \in {"object", "array"} -> TRUE
    [] OTHER -> FALSE

\* typeof v === 'object' && !Array.isArray(v), for a truthy v
IsPlainObject(v) == v.k = "object"

HasKey(o, key) == \E i \in 1..Len(o) : o[i].key = key

IndexOfKey(o, key) == CHOOSE i \in 1..Len(o) : o[i].key = key

\* v[key]: property read; undefined when the property is absent or v is a
\* primitive without that property
Get(v, key) ==
  IF v.k = "object" /\ HasKey(v.o, key) THEN v.o[IndexOfKey(v.o, key)].val
  ELSE Undefined

\* result[key] = val on an ordered object: an existing key keeps its position,
\* a new key is appended
SetKey(o, key, val) ==
  IF HasKey(o, key)
  THEN [i \in 1..Len(o) |-> IF o[i].key = key THEN KV(key, val) ELSE o[i]]
  ELSE Append(o, KV(key, val))

IndexKey(i) == <<"0", "1", "2", "3", "4", "5", "6", "7">>[i]

\* { ...target }: own enumerable properties of target, in order
Spread(target) ==
  CASE target.k = "object" -> target.o
    [] target.k = "array" -> [i \in 1..Len(target.a) |-> KV(IndexKey(i), target.a[i])]
    [] target.k = "string" -> [i \in 1..Len(target.s) |-> KV(IndexKey(i), Str(<<target.s[i]>>))]
    [] OTHER -> <<>>

\* for (const key in source): the enumerable keys of source, in order
ForInKeys(source) == [i \in 1..Len(Spread(source)) |-> Spread(source)[i].key]

RECURSIVE deepMerge(_, _)
RECURSIVE deepMergeFrom(_, _, _)
\* the loop of deepMerge from the i-th key of source on, result so far given
deepMergeFrom(result, source, i) ==
  IF i > Len(ForInKeys(source)) THEN result
  ELSE LET key == ForInKeys(source)[i]
           sv == Spread(source)[i].val
           cur == Get(Obj(result), key)
           nv == IF Truthy(sv) /\ IsPlainObject(sv)
                 THEN deepMerge(IF Truthy(cur) THEN cur ELSE Obj(<<>>), sv)
                 ELSE sv
       IN deepMergeFrom(SetKey(result, key, nv), source, i + 1)

deepMerge(target, source) == Obj(deepMergeFrom(Spread(target), source, 1))

defaultConfig ==
  Obj(<<
    KV("audio", Obj(<<
      KV("noiseSuppression", Obj(<<
        KV("enabled", Bool(FALSE)),
        KV("intensity", Str(<<"m", "e", "d", "i", "u", "m">>)),
        KV("model", Str(<<"r", "n", "n", "o", "i", "s", "e">>)) >>)),
      KV("agc", Obj(<<
        KV("enabled", Bool(FALSE)),
        KV("targetLevel", Num("-20")),
        KV("compressionRatio", Num("3")),
        KV("attackTime", Num("0.1")),
        KV("releaseTime", Num("0.5")) >>)),
      KV("voiceFocus", Obj(<<
        KV("enabled", Bool(FALSE)),
        KV("sensitivity", Num("0.8")),
        KV("frequencyRange", Arr(<<Num("85"), Num("255")>>)) >>)) >>)),
    KV("video", Obj(<<
      KV("colorCorrection", Obj(<<
        KV("enabled", Bool(FALSE)),
        KV("brightness", Num("1")),
        KV("contrast", Num("1")),
        KV("saturation", Num("1")),
        KV("gamma", Num("1")) >>)),
      KV("lowLightCompensation", Obj(<<
        KV("enabled", Bool(FALSE)),
        KV("threshold", Num("0.3")),
        KV("boost", Num("1.5")),
        KV("preserveColors", Bool(TRUE)) >>)),
      KV("backgroundBlur", Obj(<<
        KV("enabled", Bool(FALSE)),
        KV("intensity", Num("15")),
        KV("model", Str(<<"b", "o", "d", "y", "p", "i", "x">>)) >>)),
      KV("backgroundReplace", Obj(<<
        KV("enabled", Bool(FALSE)),
        KV("image", Null),
        KV("model", Str(<<"b", "o", "d", "y", "p", "i", "x">>)) >>)) >>)),
    KV("performance", Obj(<<
      KV("targetFPS", Num("30")),
      KV("quality", Str(<<"b", "a", "l", "a", "n", "c", "e", "d">>)),
      KV("useWebGL", Bool(TRUE)),
      KV("useWebWorkers", Bool(FALSE)) >>)) >>)

mergeConfig(userConfig) == deepMerge(defaultConfig, userConfig)

\* JSON.stringify(v): the text keeps the key order and the values; a property
\* whose value is undefined is omitted, an undefined array element and NaN
\* are written as null, -0 as 0
RECURSIVE JSONstringify(_)
JSONstringify(v) ==
  CASE v.k = "object" ->
         LET kept == SelectSeq(v.o, LAMBDA e : e.val.k # "undefined")
         IN Obj([i \in 1..Len(kept) |-> KV(kept[i].key, JSONstringify(kept[i].val))])
    [] v.k = "array" -> Arr([i \in 1..Len(v.a) |-> JSONstringify(v.a[i])])
    [] v.k = "number" -> IF v.n = "NaN" THEN Null ELSE IF v.n = "-0" THEN Num("0") ELSE v
    [] v.k = "undefined" -> Null
    [] OTHER -> v

configChanged(oldConfig, newConfig) == JSONstringify(oldConfig) # JSONstringify(newConfig)

hasAudioFeatures(cfg) ==
  LET audio == Get(cfg, "audio")
  IN \/ Truthy(Get(Get(audio, "noiseSuppression"), "enabled"))
     \/ Truthy(Get(Get(audio, "agc"), "enabled"))
     \/ Truthy(Get(Get(audio, "voiceFocus"), "enabled"))

hasVideoFeatures(cfg) ==
  LET video == Get(cfg, "video")
  IN \/ Truthy(Get(Get(video, "colorCorrection"), "enabled"))
     \/ Truthy(Get(Get(video, "lowLightCompensation"), "enabled"))
     \/ Truthy(Get(Get(video, "backgroundBlur"), "enabled"))
     \/ Truthy(Get(Get(video, "backgroundReplace"), "enabled"))

(***************************************************************************)
(* Inputs                                                                   *)
(***************************************************************************)
Path1(a, b, c, v) == Obj(<<KV(a, Obj(<<KV(b, Obj(<<KV(c, v)>>))>>))>>)

cfgEmpty == Obj(<<>>)

cfgAgcOn == Path1("audio", "agc", "enabled", Bool(TRUE))

cfgColorOn == Path1("video", "colorCorrection", "enabled", Bool(TRUE))

cfgBothOn ==
  Obj(<<KV("audio", Obj(<<KV("noiseSuppression", Obj(<<KV("enabled", Bool(TRUE))>>))>>)),
        KV("video", Obj(<<KV("backgroundBlur", Obj(<<KV("enabled", Bool(TRUE))>>))>>))>>)

\* the configuration objects callers pass to the constructor / updateConfig
UserConfigs == {cfgEmpty, cfgAgcOn, cfgColorOn, cfgBothOn}

\* a MediaStream: an object identity plus its numbers of audio/video tracks
Stream(id, a, v) == [id |-> id, audio |-> a, video |-> v]

NotAStream == [id |-> 0, audio |-> 0, video |-> 0]

\* arguments of process(): null, a non-stream object, or a MediaStream
ProcessArgs ==
  {[valid |-> FALSE, stream |-> NotAStream]}
  \cup {[valid |-> TRUE, stream |-> Stream(1, a, v)] : a \in 0..1, v \in 0..1}

EventNames == {"destroyed"}

Handlers == {"h1"}

(***************************************************************************)
(* State                                                                    *)
(***************************************************************************)
VARIABLES
  config,          \* this.config
  audioProcessor,  \* this.audioProcessor: 0 is null, else an index of pipelines
  videoProcessor,  \* this.videoProcessor: 0 is null, else an index of pipelines
  isProcessing,    \* this.isProcessing
  isDestroyed,     \* this.isDestroyed
  events,          \* this.events of the orchestrator's EventEmitter
  pipelines,       \* every AudioProcessor / VideoProcessor ever constructed
  inits,           \* the initializeProcessors() runs (1 is the constructor's)
  updates,         \* the updateConfig() calls
  procs,           \* the process() calls
  destroys,        \* the destroy() calls that passed the isDestroyed guard
  destroyedLog     \* one entry per emit('destroyed'): the handlers it invoked

\* State of the component-level specifications (MergeSpec, PipeSpec, UnitSpec,
\* EmitterSpec): one configuration merge, one pipeline instance driven
\* directly, one enhancement module instance driven directly, one EventEmitter
VARIABLES
  mergeRun,        \* a deepMerge / constructor run: its inputs and results
  pline,           \* an AudioProcessor or VideoProcessor instance and its calls
  unit,            \* an enhancement module instance and its calls
  emitter          \* an EventEmitter instance, its listeners and its dispatches

orchVars == <<config, audioProcessor, videoProcessor, isProcessing, isDestroyed,
              events, pipelines, inits, updates, procs, destroys, destroyedLog>>

unitVars == <<mergeRun, pline, unit, emitter>>

vars == <<config, audioProcessor, videoProcessor, isProcessing, isDestroyed,
          events, pipelines, inits, updates, procs, destroys, destroyedLog,
          mergeRun, pline, unit, emitter>>

\* the value of a component variable in a specification that does not use it
Idle == [pc |-> "idle"]

\* new AudioProcessor(cfg) / new VideoProcessor(cfg): the constructor's state
\* (init tells whether initialize() is still running, resolved or rejected)
NewPipeline(domain) ==
  [domain |-> domain, init |-> "pending", isInitialized |-> FALSE,
   isProcessing |-> FALSE, destroyCalls |-> 0]

\* initializeProcessors() from its video part up to the next await
initializeVideo(cfg, pipes, ap, vp) ==
  IF hasVideoFeatures(cfg)
  THEN [pipelines |-> Append(pipes, NewPipeline("video")), audioProcessor |-> ap,
        videoProcessor |-> Len(pipes) + 1, pc |-> "awaitVideo",
        aw |-> Len(pipes) + 1, out |-> "none"]
  ELSE [pipelines |-> pipes, audioProcessor |-> ap, videoProcessor |-> vp,
        pc |-> "done", aw |-> 0, out |-> "initialized"]

\* initializeProcessors() from its start up to the first await
initializeProcessors(cfg, pipes, ap, vp) ==
  IF hasAudioFeatures(cfg)
  THEN [pipelines |-> Append(pipes, NewPipeline("audio")),
        audioProcessor |-> Len(pipes) + 1, videoProcessor |-> vp,
        pc |-> "awaitAudio", aw |-> Len(pipes) + 1, out |-> "none"]
  ELSE initializeVideo(cfg, pipes, ap, vp)

InitTask(r) == [pc |-> r.pc, aw |-> r.aw, out |-> r.out]

NoEvents == [e \in EventNames |-> <<>>]

\* the state right after `new MediaProcessor(c)` returned
Init ==
  \E c \in UserConfigs :
    LET cfg == mergeConfig(c)
        r == initializeProcessors(cfg, <<>>, 0, 0)
    IN /\ config = cfg
       /\ audioProcessor = r.audioProcessor
       /\ videoProcessor = r.videoProcessor
       /\ pipelines = r.pipelines
       /\ inits = <<InitTask(r)>>
       /\ isProcessing = FALSE
       /\ isDestroyed = FALSE
       /\ events = NoEvents
       /\ updates = <<>>
       /\ procs = <<>>
       /\ destroys = <<>>
       /\ destroyedLog = <<>>
       /\ mergeRun = Idle
       /\ pline = Idle
       /\ unit = Idle
       /\ emitter = Idle

(***************************************************************************)
(* Pipelines: AudioProcessor.initialize / VideoProcessor.initialize         *)
(***************************************************************************)
\* initialize() reaches its end: isInitialized = true, whatever happened to
\* the pipeline while initialize() was awaiting
PipelineInitialized(p) ==
  /\ pipelines[p].init = "pending"
  /\ pipelines' = [pipelines EXCEPT ![p].init = "ok", ![p].isInitialized = TRUE]
  /\ UNCHANGED <<config, audioProcessor, videoProcessor, isProcessing, isDestroyed,
                 events, inits, updates, procs, destroys, destroyedLog>>
  /\ UNCHANGED unitVars

\* initialize() throws (backend unavailable): error event, promise rejected
PipelineInitFails(p) ==
  /\ pipelines[p].init = "pending"
  /\ pipelines' = [pipelines EXCEPT ![p].init = "failed"]
  /\ UNCHANGED <<config, audioProcessor, videoProcessor, isProcessing, isDestroyed,
                 events, inits, updates, procs, destroys, destroyedLog>>
  /\ UNCHANGED unitVars

(***************************************************************************)
(* initializeProcessors: continuations after its awaits                     *)
(***************************************************************************)
InitAfterAudio(t) ==
  /\ inits[t].pc = "awaitAudio"
  /\ pipelines[inits[t].aw].init # "pending"
  /\ IF pipelines[inits[t].aw].init = "failed"
     THEN /\ inits' = [inits EXCEPT ![t] = [pc |-> "done", aw |-> 0, out |-> "error"]]
          /\ UNCHANGED <<pipelines, audioProcessor, videoProcessor>>
     ELSE LET r == initializeVideo(config, pipelines, audioProcessor, videoProcessor)
          IN /\ inits' = [inits EXCEPT ![t] = InitTask(r)]
             /\ pipelines' = r.pipelines
             /\ videoProcessor' = r.videoProcessor
             /\ UNCHANGED audioProcessor
  /\ UNCHANGED <<config, isProcessing, isDestroyed, events, updates, procs,
                 destroys, destroyedLog>>
  /\ UNCHANGED unitVars

InitAfterVideo(t) ==
  /\ inits[t].pc = "awaitVideo"
  /\ pipelines[inits[t].aw].init # "pending"
  /\ inits' = [inits EXCEPT ![t] =
                 [pc |-> "done", aw |-> 0,
                  out |-> IF pipelines[inits[t].aw].init = "failed"
                          THEN "error" ELSE "initialized"]]
  /\ UNCHANGED <<config, audioProcessor, videoProcessor, isProcessing, isDestroyed,
                 events, pipelines, updates, procs, destroys, destroyedLog>>
  /\ UNCHANGED unitVars

(***************************************************************************)
(* updateConfig                                                             *)
(***************************************************************************)
\* the isDestroyed guard of updateConfig
updateConfigEntry(destroyed) == IF destroyed THEN "destroyed" ELSE "run"

UpdateConfigCall(newConfig) ==
  /\ Len(updates) < MaxUpdates
  /\ IF updateConfigEntry(isDestroyed) = "destroyed"
     THEN /\ updates' = Append(updates,
                 [pc |-> "done", arg |-> newConfig, afterDestroy |-> Len(destroys) > 0,
                  task |-> 0, reinit |-> FALSE, result |-> "destroyed"])
          /\ UNCHANGED <<config, audioProcessor, videoProcessor, pipelines, inits>>
     ELSE LET oldConfig == config
              merged == mergeConfig(newConfig)
              needsReinit == configChanged(oldConfig, merged)
              r == initializeProcessors(merged, pipelines, audioProcessor, videoProcessor)
          IN /\ config' = merged
             /\ IF needsReinit
                THEN /\ pipelines' = r.pipelines
                     /\ audioProcessor' = r.audioProcessor
                     /\ videoProcessor' = r.videoProcessor
                     /\ inits' = Append(inits, InitTask(r))
                     /\ updates' = Append(updates,
                            [pc |-> "awaitInit", arg |-> newConfig,
                             afterDestroy |-> Len(destroys) > 0,
                             task |-> Len(inits) + 1, reinit |-> TRUE,
                             result |-> "pending"])
                ELSE /\ updates' = Append(updates,
                            [pc |-> "done", arg |-> newConfig,
                             afterDestroy |-> Len(destroys) > 0,
                             task |-> 0, reinit |-> FALSE, result |-> "resolved"])
                     /\ UNCHANGED <<pipelines, audioProcessor, videoProcessor, inits>>
  /\ UNCHANGED <<isProcessing, isDestroyed, events, procs, destroys, destroyedLog>>
  /\ UNCHANGED unitVars

\* `await this.initializeProcessors()` resumes: emit config:updated, resolve
UpdateConfigReturn(u) ==
  /\ updates[u].pc = "awaitInit"
  /\ inits[updates[u].task].pc = "done"
  /\ updates' = [updates EXCEPT ![u].pc = "done", ![u].result = "resolved"]
  /\ UNCHANGED <<config, audioProcessor, videoProcessor, isProcessing, isDestroyed,
                 events, pipelines, inits, procs, destroys, destroyedLog>>
  /\ UNCHANGED unitVars

(***************************************************************************)
(* process                                                                  *)
(***************************************************************************)
\* a process() that lacks the isDestroyed guard
processEntryNoDestroyedCheck(destroyed, arg) ==
  IF ~arg.valid THEN "invalid" ELSE "run"

\* a process() that lacks the input validation
processEntryNoValidation(destroyed, arg) ==
  IF destroyed THEN "destroyed" ELSE "run"

\* the two guards at the head of MediaProcessor.process
processEntry(destroyed, arg) ==
  IF destroyed THEN "destroyed"
  ELSE IF ~arg.valid THEN "invalid"
  ELSE "run"

\* an audio gate that does not look at the stream's audio tracks
audioGateNoTrackCheck(ap, cfg, stream) == ap # 0 /\ hasAudioFeatures(cfg)

\* `this.audioProcessor && this.hasAudioFeatures()` and audioTracks.length > 0
audioGate(ap, cfg, stream) == ap # 0 /\ hasAudioFeatures(cfg) /\ stream.audio > 0

\* `this.videoProcessor && this.hasVideoFeatures()` and videoTracks.length > 0
videoGate(vp, cfg, stream) == vp # 0 /\ hasVideoFeatures(cfg) /\ stream.video > 0

\* a completion that emits before it clears the flag
processCompleteEmitFirst(flag, stream) ==
  [isProcessing |-> FALSE,
   event |-> [ev |-> "processing:complete", stream |-> stream.id, err |-> "",
              during |-> flag]]

\* this.isProcessing = false; this.emit('processing:complete', {stream}):
\* the new flag and the event, which records the flag's value when emitted
processComplete(flag, stream) ==
  [isProcessing |-> FALSE,
   event |-> [ev |-> "processing:complete", stream |-> stream.id, err |-> "",
              during |-> FALSE]]

\* catch (error) { this.isProcessing = false; this.emit('error', error); throw error }
processCatch(flag, error) ==
  [isProcessing |-> FALSE,
   event |-> [ev |-> "error", stream |-> 0, err |-> error, during |-> FALSE]]

NoStage == [state |-> "none", stream |-> NotAStream, err |-> ""]

\* AudioProcessor.process(stream), which contains no await: its outcomes
AudioProcess(pipe, stream, i) ==
  IF ~pipe.isInitialized
  THEN {[state |-> "failed", stream |-> NotAStream, err |-> "AudioProcessor not initialized"]}
  ELSE IF stream.audio = 0
  THEN {[state |-> "ok", stream |-> stream, err |-> ""]}
  ELSE {[state |-> "ok", stream |-> Stream(10 * i + 1, 1, stream.video), err |-> ""],
        [state |-> "failed", stream |-> NotAStream, err |-> "audio backend error"]}

\* VideoProcessor.process(stream) up to its first await
VideoProcessStart(pipe, stream) ==
  IF ~pipe.isInitialized
  THEN [pipe |-> pipe,
        stage |-> [state |-> "failed", stream |-> NotAStream,
                   err |-> "VideoProcessor not initialized"]]
  ELSE IF stream.video = 0
  THEN [pipe |-> [pipe EXCEPT !.isProcessing = TRUE],
        stage |-> [state |-> "ok", stream |-> stream, err |-> ""]]
  ELSE [pipe |-> [pipe EXCEPT !.isProcessing = TRUE],
        stage |-> [state |-> "pending", stream |-> stream, err |-> ""]]

\* VideoProcessor.process after the await: the strategy returns the new
\* stream, or the try block throws (caught: isProcessing cleared), or the
\* strategy's promise rejects (not caught: isProcessing stays as it is)
VideoProcessSettle(pipe, stream, i) ==
  {[pipe |-> [pipe EXCEPT !.isProcessing = FALSE],
    stage |-> [state |-> "ok", stream |-> Stream(10 * i + 2, stream.audio, 1), err |-> ""]],
   [pipe |-> [pipe EXCEPT !.isProcessing = FALSE],
    stage |-> [state |-> "failed", stream |-> NotAStream, err |-> "video backend error"]],
   [pipe |-> pipe,
    stage |-> [state |-> "failed", stream |-> NotAStream, err |-> "video strategy error"]]}

SetProc(i, rec) == IF i > Len(procs) THEN Append(procs, rec) ELSE [procs EXCEPT ![i] = rec]

\* process() returns processedStream
ProcessFinish(i, rec, ps) ==
  LET c == processComplete(isProcessing, ps)
  IN /\ isProcessing' = c.isProcessing
     /\ procs' = SetProc(i, [rec EXCEPT !.pc = "done", !.processedStream = ps,
                                         !.log = Append(rec.log, c.event),
                                         !.result = [kind |-> "resolved",
                                                     stream |-> ps.id, err |-> ""]])

\* process() leaves through its catch block
ProcessFail(i, rec, error) ==
  LET c == processCatch(isProcessing, error)
  IN /\ isProcessing' = c.isProcessing
     /\ procs' = SetProc(i, [rec EXCEPT !.pc = "done",
                                         !.log = Append(rec.log, c.event),
                                         !.result = [kind |-> "rejected",
                                                     stream |-> 0, err |-> error]])

\* the video part of process(), entered with processedStream = ps
ProcessVideoPart(i, rec, ps) ==
  LET rec1 == [rec EXCEPT !.vExists = IF videoProcessor # 0 THEN "yes" ELSE "no"]
  IN IF videoGate(videoProcessor, config, rec.arg.stream)
     THEN LET s == VideoProcessStart(pipelines[videoProcessor], ps)
          IN /\ pipelines' = [pipelines EXCEPT ![videoProcessor] = s.pipe]
             /\ procs' = SetProc(i, [rec1 EXCEPT !.pc = "awaitVideo",
                                                 !.aw = videoProcessor,
                                                 !.processedStream = ps,
                                                 !.stage = s.stage,
                                                 !.videoInvoked = TRUE,
                                                 !.vInput = ps.id])
             /\ isProcessing' = TRUE
     ELSE /\ ProcessFinish(i, rec1, ps)
          /\ UNCHANGED pipelines

process(arg, calls) ==
  /\ Len(procs) < calls
  /\ LET i == Len(procs) + 1
         entry == processEntry(isDestroyed, arg)
         rec0 == [pc |-> "done", arg |-> arg, afterDestroy |-> Len(destroys) > 0,
                  features |-> <<hasAudioFeatures(config), hasVideoFeatures(config)>>,
                  aw |-> 0, processedStream |-> arg.stream, stage |-> NoStage,
                  log |-> <<>>, audioInvoked |-> FALSE, videoInvoked |-> FALSE,
                  aExists |-> "na", vExists |-> "na", vInput |-> 0,
                  result |-> [kind |-> "pending", stream |-> 0, err |-> ""]]
         started == [rec0 EXCEPT
                       !.log = <<[ev |-> "processing:start", stream |-> 0, err |-> "",
                                  during |-> TRUE]>>,
                       !.aExists = IF audioProcessor # 0 THEN "yes" ELSE "no"]
     IN IF entry # "run"
        THEN /\ procs' = Append(procs,
                   [rec0 EXCEPT !.result = [kind |-> "rejected", stream |-> 0,
                                            err |-> entry]])
             /\ UNCHANGED <<isProcessing, pipelines>>
        ELSE IF audioGate(audioProcessor, config, arg.stream)
        THEN \E o \in AudioProcess(pipelines[audioProcessor], arg.stream, i) :
               /\ procs' = Append(procs,
                     [started EXCEPT !.pc = "awaitAudio", !.aw = audioProcessor,
                                     !.stage = o, !.audioInvoked = TRUE])
               /\ isProcessing' = TRUE
               /\ UNCHANGED pipelines
        ELSE ProcessVideoPart(i, started, arg.stream)
  /\ UNCHANGED <<config, audioProcessor, videoProcessor, isDestroyed, events,
                 inits, updates, destroys, destroyedLog>>
  /\ UNCHANGED unitVars

ProcessCall(arg) == process(arg, MaxProcess)

\* `await this.audioProcessor.process(processedStream)` resumes
ProcessAfterAudio(i) ==
  /\ procs[i].pc = "awaitAudio"
  /\ IF procs[i].stage.state = "failed"
     THEN /\ ProcessFail(i, procs[i], procs[i].stage.err)
          /\ UNCHANGED pipelines
     ELSE ProcessVideoPart(i, [procs[i] EXCEPT !.aw = 0], procs[i].stage.stream)
  /\ UNCHANGED <<config, audioProcessor, videoProcessor, isDestroyed, events,
                 inits, updates, destroys, destroyedLog>>
  /\ UNCHANGED unitVars

\* `await this.videoProcessor.process(processedStream)` resumes
ProcessAfterVideo(i) ==
  /\ procs[i].pc = "awaitVideo"
  /\ LET rec == procs[i]
         p == rec.aw
     IN IF rec.stage.state = "failed"
        THEN /\ ProcessFail(i, rec, rec.stage.err)
             /\ UNCHANGED pipelines
        ELSE IF rec.stage.state = "ok"
        THEN /\ ProcessFinish(i, rec, rec.stage.stream)
             /\ UNCHANGED pipelines
        ELSE \E o \in VideoProcessSettle(pipelines[p], rec.processedStream, i) :
               /\ pipelines' = [pipelines EXCEPT ![p] = o.pipe]
               /\ IF o.stage.state = "ok"
                  THEN ProcessFinish(i, [rec EXCEPT !.stage = o.stage], o.stage.stream)
                  ELSE ProcessFail(i, [rec EXCEPT !.stage = o.stage], o.stage.err)
  /\ UNCHANGED <<config, audioProcessor, videoProcessor, isDestroyed, events,
                 inits, updates, destroys, destroyedLog>>
  /\ UNCHANGED unitVars

(***************************************************************************)
(* destroy                                                                  *)
(***************************************************************************)
\* AudioProcessor.destroy / VideoProcessor.destroy up to its first await
PipelineDestroy(pipe) ==
  [pipe EXCEPT !.isProcessing = FALSE, !.isInitialized = FALSE,
               !.destroyCalls = pipe.destroyCalls + 1]

\* this.emit('destroyed'); this.removeAllListeners()
DestroyFinish(j, rec) ==
  /\ destroyedLog' = Append(destroyedLog, events["destroyed"])
  /\ events' = NoEvents
  /\ destroys' = IF j > Len(destroys)
                 THEN Append(destroys, [rec EXCEPT !.pc = "done", !.aw = 0])
                 ELSE [destroys EXCEPT ![j] = [rec EXCEPT !.pc = "done", !.aw = 0]]

\* the video part of destroy()
DestroyVideoPart(j, rec) ==
  IF videoProcessor # 0
  THEN /\ pipelines' = [pipelines EXCEPT
                          ![videoProcessor] = PipelineDestroy(pipelines[videoProcessor])]
       /\ destroys' = IF j > Len(destroys)
                      THEN Append(destroys, [rec EXCEPT !.pc = "awaitVideo",
                                                        !.aw = videoProcessor])
                      ELSE [destroys EXCEPT ![j] = [rec EXCEPT !.pc = "awaitVideo",
                                                               !.aw = videoProcessor]]
       /\ UNCHANGED <<events, destroyedLog>>
  ELSE /\ DestroyFinish(j, rec)
       /\ UNCHANGED pipelines

\* destroy(): a call on a destroyed orchestrator returns at once and changes
\* nothing
DestroyCall ==
  LET j == Len(destroys) + 1
      rec == [pc |-> "done", aw |-> 0, subsAtCall |-> events["destroyed"]]
  IN IF isDestroyed
     THEN UNCHANGED vars
     ELSE /\ isDestroyed' = TRUE
          /\ isProcessing' = FALSE
          /\ IF audioProcessor # 0
             THEN /\ pipelines' = [pipelines EXCEPT
                         ![audioProcessor] = PipelineDestroy(pipelines[audioProcessor])]
                  /\ destroys' = Append(destroys,
                         [rec EXCEPT !.pc = "awaitAudio", !.aw = audioProcessor])
                  /\ UNCHANGED <<events, destroyedLog>>
             ELSE DestroyVideoPart(j, rec)
          /\ UNCHANGED <<config, audioProcessor, videoProcessor, inits, updates, procs>>
          /\ UNCHANGED unitVars

\* `await this.audioProcessor.destroy()` resumes: this.audioProcessor = null
DestroyAfterAudio(j) ==
  /\ destroys[j].pc = "awaitAudio"
  /\ audioProcessor' = 0
  /\ DestroyVideoPart(j, destroys[j])
  /\ UNCHANGED <<config, videoProcessor, isProcessing, isDestroyed, inits, updates, procs>>
  /\ UNCHANGED unitVars

\* `await this.videoProcessor.destroy()` resumes: this.videoProcessor = null
DestroyAfterVideo(j) ==
  /\ destroys[j].pc = "awaitVideo"
  /\ videoProcessor' = 0
  /\ DestroyFinish(j, destroys[j])
  /\ UNCHANGED <<config, audioProcessor, isProcessing, isDestroyed, pipelines,
                 inits, updates, procs>>
  /\ UNCHANGED unitVars

(***************************************************************************)
(* EventEmitter: on / off as called by observers of the orchestrator        *)
(***************************************************************************)
Registrations == Len(events["destroyed"])

On(event, listener) ==
  /\ Registrations < MaxListeners
  /\ events' = [events EXCEPT ![event] = Append(@, listener)]
  /\ UNCHANGED <<config, audioProcessor, videoProcessor, isProcessing, isDestroyed,
                 pipelines, inits, updates, procs, destroys, destroyedLog>>
  /\ UNCHANGED unitVars

\* indexOf + splice: the first registration of listener is removed
RemoveFirst(seq, x) ==
  IF \E i \in 1..Len(seq) : seq[i] = x
  THEN LET idx == CHOOSE i \in 1..Len(seq) : seq[i] = x /\ \A m \in 1..(i - 1) : seq[m] # x
       IN [m \in 1..(Len(seq) - 1) |-> IF m < idx THEN seq[m] ELSE seq[m + 1]]
  ELSE seq

Off(event, listener) ==
  /\ events[event] # <<>>
  /\ events' = [events EXCEPT ![event] = RemoveFirst(@, listener)]
  /\ events' # events
  /\ UNCHANGED <<config, audioProcessor, videoProcessor, isProcessing, isDestroyed,
                 pipelines, inits, updates, procs, destroys, destroyedLog>>
  /\ UNCHANGED unitVars

(***************************************************************************)
(* Specification                                                            *)
(***************************************************************************)
Next ==
  \/ \E p \in 1..Len(pipelines) : PipelineInitialized(p)
  \/ \E p \in 1..Len(pipelines) : PipelineInitFails(p)
  \/ \E t \in 1..Len(inits) : InitAfterAudio(t)
  \/ \E t \in 1..Len(inits) : InitAfterVideo(t)
  \/ \E c \in UserConfigs : UpdateConfigCall(c)
  \/ \E u \in 1..Len(updates) : UpdateConfigReturn(u)
  \/ \E a \in ProcessArgs : ProcessCall(a)
  \/ \E i \in 1..Len(procs) : ProcessAfterAudio(i)
  \/ \E i \in 1..Len(procs) : ProcessAfterVideo(i)
  \/ DestroyCall
  \/ \E j \in 1..Len(destroys) : DestroyAfterAudio(j)
  \/ \E j \in 1..Len(destroys) : DestroyAfterVideo(j)
  \/ \E e \in EventNames, h \in Handlers : On(e, h)
  \/ \E e \in EventNames, h \in Handlers : Off(e, h)

Spec == Init /\ [][Next]_vars

\* the orchestrator with several process() calls and neither updateConfig()
\* nor destroy()
OverlapNext ==
  \/ \E p \in 1..Len(pipelines) : PipelineInitialized(p)
  \/ \E p \in 1..Len(pipelines) : PipelineInitFails(p)
  \/ \E t \in 1..Len(inits) : InitAfterAudio(t)
  \/ \E t \in 1..Len(inits) : InitAfterVideo(t)
  \/ \E a \in ProcessArgs : process(a, MaxOverlap)
  \/ \E i \in 1..Len(procs) : ProcessAfterAudio(i)
  \/ \E i \in 1..Len(procs) : ProcessAfterVideo(i)

OverlapSpec == Init /\ [][OverlapNext]_vars

(***************************************************************************)
(* MergeSpec: one deepMerge(target, source) call, or one construction       *)
(* `new MediaProcessor(source)` followed by the pipelines' module creation  *)
(***************************************************************************)
\* the README quick start: every feature given as a boolean
cfgReadme ==
  Obj(<<KV("audio", Obj(<<KV("noiseSuppression", Bool(TRUE)),
                          KV("agc", Bool(TRUE)),
                          KV("voiceFocus", Bool(TRUE))>>)),
        KV("video", Obj(<<KV("colorCorrection", Bool(TRUE)),
                          KV("lowLightCompensation", Bool(TRUE)),
                          KV("backgroundBlur", Bool(TRUE)),
                          KV("backgroundReplace", Bool(FALSE))>>))>>)

\* the quick start form, and the same form for one feature of one domain
ReadmeConfigs ==
  {cfgReadme,
   Obj(<<KV("audio", Obj(<<KV("noiseSuppression", Bool(TRUE))>>))>>),
   Obj(<<KV("video", Obj(<<KV("backgroundBlur", Bool(TRUE))>>))>>)}

\* an object given where the defaults hold an array / a string
cfgRangeObject ==
  Path1("audio", "voiceFocus", "frequencyRange", Obj(<<KV("min", Num("100"))>>))

cfgQualityObject ==
  Obj(<<KV("performance", Obj(<<KV("quality", Obj(<<KV("level", Num("2"))>>))>>))>>)

cfgUnknownKeys ==
  Obj(<<KV("audio", Obj(<<KV("echo", Obj(<<KV("enabled", Bool(TRUE))>>))>>)),
        KV("custom", Num("1"))>>)

\* the second argument of deepMerge / the constructor's argument: the
\* callers' configurations, the README's forms (quick start and
\* "Configuration Options"), an array, null and falsy leaves, unknown keys
MergeSources ==
  UserConfigs \cup ReadmeConfigs
  \cup {cfgRangeObject, cfgQualityObject, cfgUnknownKeys,
        Obj(<<KV("audio", Obj(<<KV("agc", Obj(<<KV("enabled", Bool(TRUE)),
                                                KV("targetLevel", Num("-10"))>>))>>))>>),
        Path1("audio", "voiceFocus", "frequencyRange", Arr(<<Num("100")>>)),
        Obj(<<KV("video", Obj(<<KV("backgroundReplace", Obj(<<KV("image", Null)>>))>>)),
              KV("performance", Obj(<<KV("targetFPS", Num("0"))>>))>>)}

\* the first argument of deepMerge: the defaults (mergeConfig), a
\* configuration a previous merge produced, and objects met on the way down
MergeTargets ==
  {defaultConfig, mergeConfig(cfgBothOn), mergeConfig(cfgUnknownKeys), Obj(<<>>)}

AudioModules == {"noiseSuppression", "agc", "voiceFocus"}

VideoModules == {"colorCorrection", "lowLightCompensation", "backgroundBlur"}

\* this.config.<feature>?.enabled, as createProcessingNodes and
\* createProcessingModules test it
featureEnabled(domainCfg, feature) == Truthy(Get(Get(domainCfg, feature), "enabled"))

\* the modules AudioProcessor.createProcessingNodes creates for its config
createProcessingNodes(audioCfg) == {m \in AudioModules : featureEnabled(audioCfg, m)}

\* the modules VideoProcessor.createProcessingModules creates for its config
createProcessingModules(videoCfg) == {m \in VideoModules : featureEnabled(videoCfg, m)}

MergeInit ==
  /\ \E t \in MergeTargets, src \in MergeSources :
       mergeRun = [pc |-> "start", target |-> t, source |-> src, result |-> Undefined,
                   features |-> <<FALSE, FALSE>>, created |-> <<>>, modules |-> {}]
  /\ pline = Idle
  /\ unit = Idle
  /\ emitter = Idle
  /\ config = Undefined
  /\ audioProcessor = 0
  /\ videoProcessor = 0
  /\ isProcessing = FALSE
  /\ isDestroyed = FALSE
  /\ events = NoEvents
  /\ pipelines = <<>>
  /\ inits = <<>>
  /\ updates = <<>>
  /\ procs = <<>>
  /\ destroys = <<>>
  /\ destroyedLog = <<>>

\* deepMerge(target, source)
DeepMergeCall ==
  /\ mergeRun.pc = "start"
  /\ mergeRun' = [mergeRun EXCEPT !.pc = "merged",
                                  !.result = deepMerge(mergeRun.target, mergeRun.source)]
  /\ UNCHANGED <<orchVars, pline, unit, emitter>>

\* new MediaProcessor(source): mergeConfig, then initializeProcessors up to
\* its first await (the pipelines it constructs)
ConstructCall ==
  /\ mergeRun.pc = "start"
  /\ mergeRun.target = defaultConfig
  /\ LET cfg == mergeConfig(mergeRun.source)
         r == initializeProcessors(cfg, <<>>, 0, 0)
     IN mergeRun' = [mergeRun EXCEPT !.pc = "constructed", !.result = cfg,
                                     !.features = <<hasAudioFeatures(cfg),
                                                    hasVideoFeatures(cfg)>>,
                                     !.created = r.pipelines]
  /\ UNCHANGED <<orchVars, pline, unit, emitter>>

\* the constructed pipelines run initialize(): the video pipeline is
\* constructed if the configuration asks for it, and each pipeline creates the
\* modules its part of the configuration enables
ConstructModules ==
  /\ mergeRun.pc = "constructed"
  /\ LET cfg == mergeRun.result
         r == initializeVideo(cfg, mergeRun.created, 0, 0)
         doms == {r.pipelines[p].domain : p \in 1..Len(r.pipelines)}
     IN mergeRun' = [mergeRun EXCEPT
                       !.pc = "modules",
                       !.created = r.pipelines,
                       !.modules =
                         (IF "audio" \in doms
                          THEN createProcessingNodes(Get(cfg, "audio")) ELSE {})
                         \cup (IF "video" \in doms
                               THEN createProcessingModules(Get(cfg, "video")) ELSE {})]
  /\ UNCHANGED <<orchVars, pline, unit, emitter>>

MergeNext ==
  \/ DeepMergeCall
  \/ ConstructCall
  \/ ConstructModules

MergeSpec == MergeInit /\ [][MergeNext]_vars

(***************************************************************************)
(* PipeSpec: one AudioProcessor or VideoProcessor instance, driven directly *)
(* by initialize / process / setFeature / destroy calls that may overlap.   *)
(* Module objects have identities (indices of objs): the fields of the      *)
(* pipeline and the local `nodes` array of a running initialize() refer to  *)
(* them. Calls into the browser (AudioContext, WebGL, canvas, connect) may  *)
(* succeed or throw.                                                        *)
(***************************************************************************)
MaxPipeCalls == 3
MaxTicks == 2

\* the features in the order createProcessingNodes / createProcessingModules
\* handle them
Order(kind) ==
  IF kind = "audio" THEN <<"noiseSuppression", "agc", "voiceFocus">>
  ELSE <<"colorCorrection", "lowLightCompensation", "backgroundBlur">>

\* the references a pipeline acquires in initialize()
Resources(kind) ==
  IF kind = "audio" THEN {"audioContext"} ELSE {"webglCanvas", "gl", "canvas", "ctx"}

\* configurations of the pipeline: the set of features with enabled: true
PipeEnabled(kind) ==
  {{}, {Order(kind)[1]}, {Order(kind)[1], Order(kind)[2]},
   {Order(kind)[1], Order(kind)[2], Order(kind)[3]}}

\* new AudioProcessor(config) / new VideoProcessor(config)
PipeNew(kind, enabled) ==
  [pc |-> "live", kind |-> kind, enabled |-> enabled,
   res |-> [r \in Resources(kind) |-> FALSE],
   slots |-> [f \in {Order(kind)[i] : i \in 1..3} |-> 0],
   objs |-> <<>>, src |-> 0, dst |-> 0, edges |-> {},
   isInitialized |-> FALSE, isProcessing |-> FALSE,
   log |-> <<>>, loops |-> <<>>, closes |-> 0, tasks |-> <<>>,
   everReady |-> FALSE, destroyed |-> FALSE]

\* an asynchronous call on the pipeline: its position and its outcome
\* (flag .. before record the pipeline as the call found it: isInitialized,
\* the life cycle, the number of modules enabled and held, whether every
\* earlier call had completed, and the chain)
PipeTask(st, op, arg) ==
  [op |-> op, pc |-> "done", arg |-> arg, i |-> 0, obj |-> 0, ok |-> TRUE,
   nodes |-> <<>>, result |-> "pending", err |-> "", out |-> NotAStream,
   flag |-> st.isInitialized, everReady |-> st.everReady, destroyed |-> st.destroyed,
   enabled |-> Cardinality(st.enabled),
   held |-> Cardinality({f \in DOMAIN st.slots : st.slots[f] # 0}),
   seq |-> \A u \in 1..Len(st.tasks) : st.tasks[u].pc = "done",
   before |-> [slots |-> st.slots, src |-> st.src, dst |-> st.dst,
               edges |-> st.edges, enabled |-> st.enabled]]

NoArg == [valid |-> FALSE, stream |-> NotAStream]

\* the index in Order of the first enabled feature after index i, 0 if none
NextEnabled(st, i) ==
  IF \E j \in (i + 1)..3 : Order(st.kind)[j] \in st.enabled
  THEN CHOOSE j \in (i + 1)..3 :
         /\ Order(st.kind)[j] \in st.enabled
         /\ \A m \in (i + 1)..(j - 1) : Order(st.kind)[m] \notin st.enabled
  ELSE 0

\* LowLightCompensation.initialize and BackgroundBlur.initialize contain no
\* call that can throw; the other modules' initialize() call into the browser
CanFail(f) == f \notin {"lowLightCompensation", "backgroundBlur"}

\* connectNodes(nodes): TRUE when no connect() call throws. A module's
\* connect() throws when the module is not initialized; gainNode.connect()
\* itself is the browser's (envOk)
connectOk(st, nodes, envOk) ==
  Len(nodes) < 2 \/ (envOk /\ \A k \in 1..(Len(nodes) - 1) : st.objs[nodes[k]].ready)

\* (a connectNodes that records the first node as both ends of the chain)
connectNodesOneEnd(st, nodes, envOk) ==
  IF nodes = <<>> \/ ~connectOk(st, nodes, envOk) THEN st
  ELSE [st EXCEPT !.edges = @ \cup {<<nodes[k], nodes[k + 1]>> : k \in 1..(Len(nodes) - 1)},
                  !.src = nodes[1], !.dst = nodes[1]]

\* connectNodes(nodes): nodes[i].connect(nodes[i + 1]) until one throws, then
\* sourceNode / destinationNode.  edges holds the connections between
\* modules: <<a, b>> when a's gainNode is connected to b
connectNodes(st, nodes, envOk) ==
  LET made == {k \in 1..(Len(nodes) - 1) :
                 envOk /\ \A m \in 1..k : st.objs[nodes[m]].ready}
      c    == [st EXCEPT !.edges = @ \cup {<<nodes[k], nodes[k + 1]>> : k \in made}]
  IN IF nodes = <<>> THEN st
     ELSE IF ~connectOk(st, nodes, envOk) THEN c
     ELSE [c EXCEPT !.src = nodes[1], !.dst = nodes[Len(nodes)]]

\* `new Module(...); await module.initialize()` for the next enabled feature
\* after index i, up to that await; when no feature is left the nodes are
\* connected (audio) and the creation function returns
startModule(st, t, i, nodes, modOk, envOk) ==
  LET j == NextEnabled(st, i)
      id == Len(st.objs) + 1
  IN IF j # 0
     THEN [st EXCEPT !.objs = Append(@, [f |-> Order(st.kind)[j],
                                         ready |-> modOk \/ ~CanFail(Order(st.kind)[j]),
                                         destroys |-> 0]),
                     !.slots[Order(st.kind)[j]] = id,
                     !.tasks[t].pc = "awaitModule", !.tasks[t].i = j,
                     !.tasks[t].obj = id,
                     !.tasks[t].ok = (modOk \/ ~CanFail(Order(st.kind)[j])),
                     !.tasks[t].nodes = nodes]
     ELSE LET c == IF st.kind = "audio" THEN connectNodes(st, nodes, envOk) ELSE st
          IN [c EXCEPT !.tasks[t].pc = "awaitNodes", !.tasks[t].nodes = nodes,
                       !.tasks[t].ok = (st.kind = "video" \/ connectOk(st, nodes, envOk))]

\* the catch block of initialize(): emit('error', ...) and rethrow
initializeFails(st, t, err) ==
  [st EXCEPT !.log = Append(@, "error"), !.tasks[t].pc = "done",
             !.tasks[t].result = "rejected", !.tasks[t].err = err]

\* how far the acquisition of the browser resources gets in initialize()
Acquired(kind) ==
  IF kind = "audio" THEN {{}, {"audioContext"}}
  ELSE {{"webglCanvas"}, {"webglCanvas", "gl", "canvas"},
        {"webglCanvas", "gl", "canvas", "ctx"}}

\* initialize() up to its first await
PipeInitialize ==
  /\ pline.pc = "live"
  /\ Len(pline.tasks) < MaxPipeCalls
  /\ \E got \in Acquired(pline.kind), modOk \in BOOLEAN, envOk \in BOOLEAN :
       LET t == Len(pline.tasks) + 1
           st0 == [pline EXCEPT
                     !.tasks = Append(@, PipeTask(pline, "initialize", NoArg)),
                     !.res = [r \in Resources(pline.kind) |->
                                IF r \in got THEN TRUE
                                ELSE IF r = "ctx" /\ "canvas" \in got THEN FALSE
                                ELSE @[r]],
                     !.closes = IF "audioContext" \in got THEN 0 ELSE @,
                     !.destroyed = FALSE]
       IN pline' = IF got # Resources(pline.kind)
                   THEN initializeFails(st0, t, "backend")
                   ELSE startModule(st0, t, 0, <<>>, modOk, envOk)
  /\ UNCHANGED <<orchVars, mergeRun, unit, emitter>>

\* initialize() resumes after `await module.initialize()`
PipeInitializeModule(t) ==
  /\ pline.pc = "live"
  /\ t \in 1..Len(pline.tasks)
  /\ pline.tasks[t].op = "initialize"
  /\ pline.tasks[t].pc = "awaitModule"
  /\ \E modOk \in BOOLEAN, envOk \in BOOLEAN :
       pline' = IF ~pline.tasks[t].ok
                THEN initializeFails(pline, t, "module")
                ELSE startModule(pline, t, pline.tasks[t].i,
                                 Append(pline.tasks[t].nodes, pline.tasks[t].obj),
                                 modOk, envOk)
  /\ UNCHANGED <<orchVars, mergeRun, unit, emitter>>

\* initialize() resumes after `await this.createProcessingNodes()`:
\* isInitialized = true, emit('initialized')
PipeInitializeEnd(t) ==
  /\ pline.pc = "live"
  /\ t \in 1..Len(pline.tasks)
  /\ pline.tasks[t].op = "initialize"
  /\ pline.tasks[t].pc = "awaitNodes"
  /\ pline' = IF ~pline.tasks[t].ok
              THEN initializeFails(pline, t, "connect")
              ELSE [pline EXCEPT !.isInitialized = TRUE, !.log = Append(@, "initialized"),
                                 !.tasks[t].pc = "done", !.tasks[t].result = "resolved",
                                 !.everReady = TRUE]
  /\ UNCHANGED <<orchVars, mergeRun, unit, emitter>>

\* arguments of the pipeline's process(): not a stream, a stream without
\* tracks, a stream with an audio and a video track
PipeArgs ==
  {NoArg, [valid |-> TRUE, stream |-> Stream(1, 0, 0)],
   [valid |-> TRUE, stream |-> Stream(1, 1, 1)]}

\* the number of tracks of the pipeline's domain in a stream
DomainTracks(kind, stream) == IF kind = "audio" THEN stream.audio ELSE stream.video

\* the two guards at the head of AudioProcessor.process / VideoProcessor.process
pipeProcessEntry(initialized, arg) ==
  IF ~initialized THEN "not initialized"
  ELSE IF ~arg.valid THEN "invalid"
  ELSE "run"

\* (a process that lacks the test for a track of its domain)
noDomainTrackMissing(kind, stream) == FALSE

\* audioTracks.length === 0 / videoTracks.length === 0
noDomainTrack(kind, stream) == DomainTracks(kind, stream) = 0

\* the catch block of process(): isProcessing = false, emit('error'), rethrow
pipeProcessCatch(st, t, err) ==
  [st EXCEPT !.isProcessing = FALSE, !.log = Append(@, "error"),
             !.tasks[t].pc = "done", !.tasks[t].result = "rejected",
             !.tasks[t].err = err]

\* a loop started by the process() call t: the audio monitoring loop
\* ("monitor", updateStats), the canvas render loop ("canvas", processFrame of
\* startFrameProcessing) or the read-transform-write loop of
\* processWithTrackProcessor ("frames").  pending: its next iteration is
\* scheduled; iter: the iterations it has performed; stop: why it ended.
\* Of a "frames" loop: phase is the await its round is at ("read":
\* reader.read(), "module": a module's process(), "write": writer.write()),
\* reads counts the frames read, written lists the frames written; for the
\* frame in flight tests lists what the fields tested so far held (0: null),
\* ran the modules whose process() was invoked and at the index in
\* FrameOrder of the last of them; threw is the module whose process() threw
PipeLoop(kind, t, iter) ==
  [kind |-> kind, task |-> t, pending |-> TRUE, iter |-> iter, errors |-> 0,
   stop |-> "", phase |-> "read", reads |-> 0, written |-> <<>>,
   tests |-> <<>>, ran |-> <<>>, at |-> 0, threw |-> 0]

\* the audio chain can be wired to the stream: the context and both ends of
\* the chain exist and the last module's connect() does not throw
audioChainOk(st) ==
  /\ st.res["audioContext"]
  /\ st.src # 0
  /\ st.dst # 0
  /\ st.objs[st.dst].ready

\* AudioProcessor.process past its guards and the track test (it contains no
\* await): wiring, startMonitoring (whose first updateStats runs at once),
\* completion; any throw goes to the catch block: a TypeError when the chain
\* is not there ("chain"), or an error of the browser's calls ("backend")
audioProcessRun(st, t, envOk) ==
  IF ~audioChainOk(st) THEN pipeProcessCatch(st, t, "chain")
  ELSE IF ~envOk THEN pipeProcessCatch(st, t, "backend")
  ELSE [st EXCEPT !.loops = Append(@, PipeLoop("monitor", t, 1)),
                  !.isProcessing = FALSE,
                  !.log = @ \o <<"stats:updated", "processing:complete">>,
                  !.tasks[t].pc = "done", !.tasks[t].result = "resolved",
                  !.tasks[t].out = Stream(10 * t + 1, 1, st.tasks[t].arg.stream.video)]

\* process(stream) up to its first await (AudioProcessor.process has none)
PipeProcess(arg) ==
  /\ pline.pc = "live"
  /\ Len(pline.tasks) < MaxPipeCalls
  /\ \E envOk \in BOOLEAN :
       LET t == Len(pline.tasks) + 1
           entry == pipeProcessEntry(pline.isInitialized, arg)
           st0 == [pline EXCEPT
                     !.tasks = Append(@, PipeTask(pline, "process", arg))]
           st1 == [st0 EXCEPT !.isProcessing = TRUE, !.log = Append(@, "processing:start")]
       IN pline' =
            IF entry # "run"
            THEN [st0 EXCEPT !.tasks[t].result = "rejected", !.tasks[t].err = entry]
            ELSE IF noDomainTrack(pline.kind, arg.stream)
            THEN [st1 EXCEPT !.log = IF pline.kind = "video"
                                     THEN Append(@, "processing:complete") ELSE @,
                             !.tasks[t].result = "resolved", !.tasks[t].out = arg.stream]
            ELSE IF pline.kind = "audio" THEN audioProcessRun(st1, t, envOk)
            ELSE [st1 EXCEPT !.tasks[t].pc = "awaitVideo"]
  /\ UNCHANGED <<orchVars, mergeRun, unit, emitter>>

\* VideoProcessor.process resumes after onloadedmetadata: the canvas is
\* resized (a throw is caught), then the promise of the strategy the browser
\* supports (window.MediaStreamTrackProcessor or the canvas) is returned: it
\* starts the frame loop and completes, or it rejects outside the try block
PipeProcessVideo(t) ==
  /\ pline.pc = "live"
  /\ t \in 1..Len(pline.tasks)
  /\ pline.tasks[t].op = "process"
  /\ pline.tasks[t].pc = "awaitVideo"
  /\ \E envOk \in BOOLEAN, strategy \in {"frames", "canvas"} :
       pline' =
         IF ~pline.res["canvas"] THEN pipeProcessCatch(pline, t, "chain")
         ELSE IF envOk
         THEN [pline EXCEPT !.loops = Append(@, PipeLoop(strategy, t, 0)),
                            !.isProcessing = FALSE,
                            !.log = Append(@, "processing:complete"),
                            !.tasks[t].pc = "done", !.tasks[t].result = "resolved",
                            !.tasks[t].out = Stream(10 * t + 2, pline.tasks[t].arg.stream.audio, 1)]
         ELSE [pline EXCEPT !.tasks[t].pc = "done", !.tasks[t].result = "rejected",
                            !.tasks[t].err = "strategy"]
  /\ UNCHANGED <<orchVars, mergeRun, unit, emitter>>

\* a destroy() call made after the process() call t
DestroyedSince(st, t) ==
  \E u \in (t + 1)..Len(st.tasks) : st.tasks[u].op = "destroy"

\* a requestAnimationFrame callback of loop l: updateStats (audio) or
\* processFrame (canvas).  It returns without rescheduling when isProcessing
\* is false; else it does its work (the canvas loop draws with this.ctx, a
\* TypeError when that is null), counts, emits stats:updated and reschedules
PipeTick(l) ==
  /\ pline.pc = "live"
  /\ l \in 1..Len(pline.loops)
  /\ pline.loops[l].kind \in {"monitor", "canvas"}
  /\ pline.loops[l].pending
  /\ pline.isProcessing => pline.loops[l].iter < MaxTicks
  /\ pline' =
       IF ~pline.isProcessing
       THEN [pline EXCEPT !.loops[l].pending = FALSE,
                          !.loops[l].stop = IF DestroyedSince(pline, pline.loops[l].task)
                                            THEN "destroyed" ELSE "idle"]
       ELSE IF pline.loops[l].kind = "canvas" /\ ~pline.res["ctx"]
       THEN [pline EXCEPT !.loops[l].pending = FALSE, !.loops[l].stop = "error"]
       ELSE [pline EXCEPT !.loops[l].iter = @ + 1, !.log = Append(@, "stats:updated")]
  /\ UNCHANGED <<orchVars, mergeRun, unit, emitter>>

\* (the order in which createProcessingModules creates the modules)
FrameOrderAsCreated == <<"colorCorrection", "lowLightCompensation", "backgroundBlur">>

\* the fields processVideoFrame tests, in its order
FrameOrder == <<"lowLightCompensation", "colorCorrection", "backgroundBlur">>

\* the catch block of processFrame: emit('error', error), and no further round
frameCatch(st, l) ==
  [st EXCEPT !.loops[l].pending = FALSE, !.loops[l].stop = "error",
             !.loops[l].errors = @ + 1, !.log = Append(@, "error")]

\* processVideoFrame of loop l from the test of the k-th field on, up to the
\* next await: a field that holds a module has its process() invoked, which
\* runs to its end (ColorCorrection's throws when the module is not
\* initialized, and the rejection reaches the catch block of processFrame);
\* when no field is left, imageDataToFrame and, back in processFrame,
\* writer.write
RECURSIVE processVideoFrame(_, _, _)
processVideoFrame(st, l, k) ==
  IF k > 3 THEN [st EXCEPT !.loops[l].phase = "write"]
  ELSE LET id == st.slots[FrameOrder[k]]
           s1 == [st EXCEPT !.loops[l].tests = Append(@, id)]
       IN IF id = 0 THEN processVideoFrame(s1, l, k + 1)
          ELSE LET s2 == [s1 EXCEPT !.loops[l].ran = Append(@, id), !.loops[l].at = k]
               IN IF st.objs[id].f = "colorCorrection" /\ ~st.objs[id].ready
                  THEN frameCatch([s2 EXCEPT !.loops[l].threw = id], l)
                  ELSE [s2 EXCEPT !.loops[l].phase = "module"]

\* (a round that goes on without having written its frame)
frameDropped(lp) == [lp EXCEPT !.iter = @ + 1, !.phase = "read"]

\* the frame was written: frameCount++, and processFrame calls itself
frameWritten(lp) ==
  [lp EXCEPT !.written = Append(@, lp.reads), !.iter = @ + 1, !.phase = "read"]

\* one continuation of processFrame of processWithTrackProcessor.  After
\* reader.read(): the end of the track, or a frame, which enters
\* processVideoFrame, or a throw of the read or of the conversion; after a
\* module's process(): the rest of processVideoFrame; after writer.write():
\* the frame is counted, stats:updated is emitted and processFrame calls
\* itself, or the write has thrown.  A throw ends in the catch block
PipeFrame(l) ==
  /\ pline.pc = "live"
  /\ l \in 1..Len(pline.loops)
  /\ pline.loops[l].kind = "frames"
  /\ pline.loops[l].pending
  /\ \E outcome \in {"done", "frame", "throws"} :
       /\ (pline.loops[l].phase = "read" /\ outcome = "frame") =>
            pline.loops[l].reads < MaxTicks
       /\ pline.loops[l].phase # "read" => outcome # "done"
       /\ pline.loops[l].phase = "module" => outcome = "frame"
       /\ pline' =
            CASE outcome = "done" ->
                   [pline EXCEPT !.loops[l].pending = FALSE, !.loops[l].stop = "exhausted"]
              [] outcome = "throws" -> frameCatch(pline, l)
              [] outcome = "frame" /\ pline.loops[l].phase = "read" ->
                   processVideoFrame([pline EXCEPT !.loops[l].reads = @ + 1,
                                                   !.loops[l].tests = <<>>,
                                                   !.loops[l].ran = <<>>,
                                                   !.loops[l].at = 0], l, 1)
              [] outcome = "frame" /\ pline.loops[l].phase = "module" ->
                   processVideoFrame(pline, l, pline.loops[l].at + 1)
              [] outcome = "frame" /\ pline.loops[l].phase = "write" ->
                   [pline EXCEPT !.loops[l] = frameWritten(@),
                                 !.log = Append(@, "stats:updated")]
  /\ UNCHANGED <<orchVars, mergeRun, unit, emitter>>

\* the index in Order of the first feature after index i whose field holds a
\* module, 0 if none
NextHeld(st, i) ==
  IF \E j \in (i + 1)..3 : st.slots[Order(st.kind)[j]] # 0
  THEN CHOOSE j \in (i + 1)..3 :
         /\ st.slots[Order(st.kind)[j]] # 0
         /\ \A m \in (i + 1)..(j - 1) : st.slots[Order(st.kind)[m]] = 0
  ELSE 0

\* module.destroy(): isInitialized = false, its nodes disconnected from what
\* they feed / its WebGL objects released
moduleDestroy(st, id) ==
  [st EXCEPT !.objs[id].ready = FALSE, !.objs[id].destroys = @ + 1,
             !.edges = {e \in @ : e[1] # id}]

\* destroy() from the test of the feature after index i up to the next await,
\* or to its end
destroyFrom(st, t, i) ==
  LET j == NextHeld(st, i)
  IN IF j # 0
     THEN [moduleDestroy(st, st.slots[Order(st.kind)[j]]) EXCEPT
             !.tasks[t].pc = "awaitModuleDestroy", !.tasks[t].i = j]
     ELSE IF st.kind = "audio"
     THEN IF st.res["audioContext"]
          THEN [st EXCEPT !.closes = @ + 1, !.tasks[t].pc = "awaitClose"]
          ELSE [st EXCEPT !.log = Append(@, "destroyed"),
                          !.tasks[t].pc = "done", !.tasks[t].result = "resolved"]
     ELSE [st EXCEPT !.res = [r \in Resources("video") |->
                                IF r = "webglCanvas" THEN @[r] ELSE FALSE],
                     !.log = Append(@, "destroyed"),
                     !.tasks[t].pc = "done", !.tasks[t].result = "resolved"]

\* destroy() up to its first await
PipeDestroyCall ==
  /\ pline.pc = "live"
  /\ Len(pline.tasks) < MaxPipeCalls
  /\ LET t == Len(pline.tasks) + 1
     IN pline' = destroyFrom([pline EXCEPT !.tasks = Append(@, PipeTask(pline, "destroy", NoArg)),
                                           !.isProcessing = FALSE,
                                           !.isInitialized = FALSE,
                                           !.everReady = FALSE,
                                           !.destroyed = TRUE], t, 0)
  /\ UNCHANGED <<orchVars, mergeRun, unit, emitter>>

\* destroy() resumes after `await module.destroy()`: the field is set to null
PipeDestroyModule(t) ==
  /\ pline.pc = "live"
  /\ t \in 1..Len(pline.tasks)
  /\ pline.tasks[t].op = "destroy"
  /\ pline.tasks[t].pc = "awaitModuleDestroy"
  /\ pline' = destroyFrom([pline EXCEPT !.slots[Order(pline.kind)[pline.tasks[t].i]] = 0],
                          t, pline.tasks[t].i)
  /\ UNCHANGED <<orchVars, mergeRun, unit, emitter>>

\* destroy() resumes after `await this.audioContext.close()`
PipeDestroyClose(t) ==
  /\ pline.pc = "live"
  /\ t \in 1..Len(pline.tasks)
  /\ pline.tasks[t].op = "destroy"
  /\ pline.tasks[t].pc = "awaitClose"
  /\ pline' = [pline EXCEPT !.res["audioContext"] = FALSE,
                            !.log = Append(@, "destroyed"),
                            !.tasks[t].pc = "done", !.tasks[t].result = "resolved"]
  /\ UNCHANGED <<orchVars, mergeRun, unit, emitter>>

\* the modules the fields hold, in order (reconnectNodes)
heldNodes(st) ==
  LET ids == [j \in 1..3 |-> st.slots[Order(st.kind)[j]]]
  IN SelectSeq(ids, LAMBDA id : id # 0)

\* the arguments of setFeature
FeatureArgs(kind) == {[f |-> Order(kind)[j], on |-> b] : j \in 1..2, b \in BOOLEAN}

\* the module's constructor argument (audioContext / gl) is there
backendHeld(st) == IF st.kind = "audio" THEN st.res["audioContext"] ELSE st.res["gl"]

\* the end of setFeature: (audio) reconnectNodes, then config[feature].enabled
setFeatureEnd(st, t, envOk) ==
  LET a == st.tasks[t].arg
      c == IF st.kind = "audio" THEN connectNodes(st, heldNodes(st), envOk) ELSE st
  IN IF st.kind = "audio" /\ ~connectOk(st, heldNodes(st), envOk)
     THEN [c EXCEPT !.tasks[t].pc = "done", !.tasks[t].result = "rejected",
                    !.tasks[t].err = "connect"]
     ELSE [c EXCEPT !.enabled = IF a.on THEN @ \cup {a.f} ELSE @ \ {a.f},
                    !.tasks[t].pc = "done", !.tasks[t].result = "resolved"]

\* setFeature(feature, enabled) up to its first await
PipeSetFeature(a) ==
  /\ pline.pc = "live"
  /\ Len(pline.tasks) < MaxPipeCalls
  /\ \E modOk \in BOOLEAN :
       LET t == Len(pline.tasks) + 1
           id == Len(pline.objs) + 1
           st0 == [pline EXCEPT !.tasks = Append(@, PipeTask(pline, "setFeature", a))]
           ok == backendHeld(pline) /\ (modOk \/ ~CanFail(a.f))
       IN pline' =
            IF a.on /\ pline.slots[a.f] = 0
            THEN [st0 EXCEPT !.objs = Append(@, [f |-> a.f, ready |-> ok, destroys |-> 0]),
                             !.slots[a.f] = id,
                             !.tasks[t].pc = "awaitCreate", !.tasks[t].obj = id,
                             !.tasks[t].ok = ok]
            ELSE IF ~a.on /\ pline.slots[a.f] # 0
            THEN [moduleDestroy(st0, pline.slots[a.f]) EXCEPT !.tasks[t].pc = "awaitRemove"]
            ELSE [st0 EXCEPT !.enabled = IF a.on THEN @ \cup {a.f} ELSE @ \ {a.f},
                             !.tasks[t].result = "resolved"]
  /\ UNCHANGED <<orchVars, mergeRun, unit, emitter>>

\* setFeature resumes after `await module.initialize()` (createNode) or after
\* `await module.destroy()` (removeNode, which then sets the field to null)
PipeSetFeatureEnd(t) ==
  /\ pline.pc = "live"
  /\ t \in 1..Len(pline.tasks)
  /\ pline.tasks[t].op = "setFeature"
  /\ pline.tasks[t].pc \in {"awaitCreate", "awaitRemove"}
  /\ \E envOk \in BOOLEAN :
       pline' =
         IF pline.tasks[t].pc = "awaitCreate"
         THEN IF pline.tasks[t].ok THEN setFeatureEnd(pline, t, envOk)
              ELSE [pline EXCEPT !.tasks[t].pc = "done", !.tasks[t].result = "rejected",
                                 !.tasks[t].err = "module"]
         ELSE setFeatureEnd([pline EXCEPT !.slots[pline.tasks[t].arg.f] = 0], t, envOk)
  /\ UNCHANGED <<orchVars, mergeRun, unit, emitter>>

PipeInit ==
  /\ \E kind \in {"audio", "video"} : \E en \in PipeEnabled(kind) : pline = PipeNew(kind, en)
  /\ mergeRun = Idle
  /\ unit = Idle
  /\ emitter = Idle
  /\ config = Undefined
  /\ audioProcessor = 0
  /\ videoProcessor = 0
  /\ isProcessing = FALSE
  /\ isDestroyed = FALSE
  /\ events = NoEvents
  /\ pipelines = <<>>
  /\ inits = <<>>
  /\ updates = <<>>
  /\ procs = <<>>
  /\ destroys = <<>>
  /\ destroyedLog = <<>>

PipeNext ==
  \/ PipeInitialize
  \/ \E t \in 1..MaxPipeCalls : PipeInitializeModule(t)
  \/ \E t \in 1..MaxPipeCalls : PipeInitializeEnd(t)
  \/ \E a \in PipeArgs : PipeProcess(a)
  \/ \E t \in 1..MaxPipeCalls : PipeProcessVideo(t)
  \/ \E l \in 1..MaxPipeCalls : PipeTick(l)
  \/ \E l \in 1..MaxPipeCalls : PipeFrame(l)
  \/ PipeDestroyCall
  \/ \E t \in 1..MaxPipeCalls : PipeDestroyModule(t)
  \/ \E t \in 1..MaxPipeCalls : PipeDestroyClose(t)
  \/ \E a \in FeatureArgs(pline.kind) : PipeSetFeature(a)
  \/ \E t \in 1..MaxPipeCalls : PipeSetFeatureEnd(t)

PipeSpec == PipeInit /\ [][PipeNext]_vars

(***************************************************************************)
(* UnitSpec: one enhancement module, driven directly.  The methods of a    *)
(* module contain no await, so each call runs to completion in one step.   *)
(* Gains are in thousandths, levels in dB.                                 *)
(***************************************************************************)
MaxUnitCalls == 4

AudioUnits == {"NoiseSuppressor", "AutomaticGainControl", "VoiceFocus"}

VideoUnits == {"ColorCorrection", "LowLightCompensation", "BackgroundBlur"}

\* the references a module's initialize() assigns, in the order it does; for
\* the audio modules the last step is the wiring analyser -> scriptProcessor
\* -> gainNode, which assigns nothing
Steps(kind) ==
  CASE kind \in {"NoiseSuppressor", "AutomaticGainControl"} ->
         <<"analyser", "gainNode", "scriptProcessor", "">>
    [] kind = "VoiceFocus" ->
         <<"analyser", "highPassFilter", "lowPassFilter", "voiceBandFilter",
           "gainNode", "scriptProcessor", "">>
    [] kind = "ColorCorrection" ->
         <<"program", "texture", "framebuffer", "vertexBuffer", "texCoordBuffer">>
    [] OTHER -> <<>>

AGC_MIN_GAIN == 100
AGC_MAX_GAIN == 10000
AGC_DEFAULT_TARGET == 0 - 20
AGC_DEFAULT_RATIO == 3
VOICE_FREQUENCY_RANGE == <<85, 255>>

\* the constructors: every reference null, isInitialized false, counters at
\* their start values.  arrays is the heap of array objects: cell 1 is
\* AUDIO_CONSTANTS.VOICE_FREQUENCY_RANGE, which VoiceFocus' default config
\* refers to (range is the cell config.frequencyRange points at, 0 for none)
UnitNew(kind) ==
  [pc |-> "live", kind |-> kind, isInitialized |-> FALSE, held |-> {},
   frameCount |-> 0, currentGain |-> 1000, targetGain |-> 1000,
   attackCoeff |-> 0, releaseCoeff |-> 0,
   range |-> IF kind = "VoiceFocus" THEN 1 ELSE 0,
   arrays |-> <<VOICE_FREQUENCY_RANGE>>,
   log |-> <<>>, calls |-> <<>>, returned |-> <<>>]

\* one call of a method: flag is isInitialized as the call found it, wrote
\* tells whether the unit's data (the frame's pixels, the output buffer) was
\* written, out is the returned frame
UnitCall(u, op, arg) ==
  [op |-> op, arg |-> arg, flag |-> u.isInitialized, result |-> "resolved",
   err |-> "", wrote |-> FALSE, out |-> [id |-> 0, px |-> <<0, 0, 0, 0>>]]

NoInput == [level |-> 0, frame |-> [id |-> 0, px |-> <<0, 0, 0, 0>>]]

\* process(unit) inputs: an audio event with the RMS level of its input in dB
\* (gainToDb(rms); -100000 stands for -Infinity, the level of silence), or a
\* frame of one pixel <<r, g, b, a>>
UnitInputs ==
  {[NoInput EXCEPT !.level = l] : l \in {0 - 100000, 0 - 50, 0 - 20, 0 - 8, 46}}
    \cup {[NoInput EXCEPT !.frame = [id |-> 1, px |-> x]] :
            x \in {<<40, 40, 40, 255>>, <<200, 200, 200, 255>>,
                   <<50, 100, 25, 128>>, <<0, 0, 255, 0>>}}

\* initialize(): the assignments up to the step that throws (failAt = 0: none
\* does); the catch block emits 'error' and rethrows.  calculateCoefficients
\* runs before the wiring: exp(-1024 / (48000 * 0.1)) and exp(-1024 / (48000 * 0.5))
unitInitialize(u, failAt) ==
  LET steps == Steps(u.kind)
      upto  == IF failAt = 0 THEN Len(steps) ELSE failAt - 1
      got   == {steps[i] : i \in 1..upto} \ {""}
      coeff == u.kind = "AutomaticGainControl" /\ (failAt = 0 \/ failAt = Len(steps))
      c     == UnitCall(u, "initialize", NoInput)
      u1    == [u EXCEPT !.held = @ \cup got,
                         !.attackCoeff = IF coeff THEN 808 ELSE @,
                         !.releaseCoeff = IF coeff THEN 958 ELSE @]
  IN IF failAt = 0
     THEN [u1 EXCEPT !.isInitialized = TRUE, !.log = Append(@, "initialized"),
                     !.calls = Append(@, c)]
     ELSE [u1 EXCEPT !.log = Append(@, "error"),
                     !.calls = Append(@, [c EXCEPT !.result = "rejected", !.err = "backend"])]

\* Math.pow(10, db / 20) at the values calculateTargetGain reaches here
\* (Infinity, here 1000000000, for an infinite db)
dbToGain(db) ==
  CASE db > 30 -> 1000000000
    [] db = 30 -> 31623
    [] db = 0 -> 1000
    [] db = 0 - 4 -> 631
    [] db = 0 - 22 -> 79

clamp(value, min, max) ==
  IF value < min THEN min ELSE IF value > max THEN max ELSE value

calculateTargetGain(inputLevel) ==
  LET levelDifference == AGC_DEFAULT_TARGET - inputLevel
      gainAdjustment  == IF levelDifference > 0 THEN levelDifference
                         ELSE 0 - ((0 - levelDifference) \div AGC_DEFAULT_RATIO)
  IN clamp(dbToGain(gainAdjustment), AGC_MIN_GAIN, AGC_MAX_GAIN)

\* (the release coefficient on a rising gain, the attack coefficient else)
smoothGainSwapped(u, newTargetGain) ==
  LET coeff == IF newTargetGain > u.currentGain THEN u.releaseCoeff ELSE u.attackCoeff
  IN [u EXCEPT !.targetGain = newTargetGain,
               !.currentGain = (u.currentGain * coeff + newTargetGain * (1000 - coeff)) \div 1000]

\* smoothGain up to the write to this.gainNode
smoothGain(u, newTargetGain) ==
  LET coeff == IF newTargetGain > u.currentGain THEN u.attackCoeff ELSE u.releaseCoeff
  IN [u EXCEPT !.targetGain = newTargetGain,
               !.currentGain = (u.currentGain * coeff + newTargetGain * (1000 - coeff)) \div 1000]

\* (a boost of every pixel, bright ones included)
processCanvasEveryPixel(px) ==
  LET luminance == 299 * px[1] + 587 * px[2] + 114 * px[3]
      boosted(c) == clamp((c * (3 * 76500 - luminance) + 76500) \div (2 * 76500), 0, 255)
  IN <<boosted(px[1]), boosted(px[2]), boosted(px[3]), px[4]>>

\* LowLightCompensation.processCanvas on the pixel <<r, g, b, a>> with the
\* default threshold 0.3 (0.3 * 255 = 76.5), boost 1.5 and preserveColors.
\* luminance and the threshold are in thousandths; c * boostFactor is
\* c * (3 * threshold - luminance) / (2 * threshold), clamped and rounded to
\* the nearest integer as a Uint8ClampedArray does (no tie at these inputs)
processCanvas(px) ==
  LET luminance == 299 * px[1] + 587 * px[2] + 114 * px[3]
      boosted(c) == clamp((c * (3 * 76500 - luminance) + 76500) \div (2 * 76500), 0, 255)
  IN IF luminance < 76500
     THEN <<boosted(px[1]), boosted(px[2]), boosted(px[3]), px[4]>>
     ELSE px

unitThrows(u, c, err) ==
  [u EXCEPT !.calls = Append(@, [c EXCEPT !.result = "rejected", !.err = err])]

unitProcessed(u, c) ==
  [u EXCEPT !.frameCount = @ + 1, !.log = Append(@, "processed"),
            !.calls = Append(@, [c EXCEPT !.wrote = TRUE])]

\* processAudio(event) of the audio modules, process(imageData) of the video
\* modules.  Only ColorCorrection tests isInitialized; the audio modules read
\* this.analyser / this.gainNode, and throw a TypeError when it is null
unitProcess(u, arg) ==
  LET c == UnitCall(u, "process", arg)
  IN CASE u.kind \in {"NoiseSuppressor", "VoiceFocus"} ->
            IF "analyser" \notin u.held THEN unitThrows(u, c, "TypeError")
            ELSE unitProcessed(u, c)
       [] u.kind = "AutomaticGainControl" ->
            LET u1 == smoothGain(u, calculateTargetGain(arg.level))
            IN IF "gainNode" \notin u.held THEN unitThrows(u1, c, "TypeError")
               ELSE unitProcessed(u1, c)
       [] u.kind = "ColorCorrection" ->
            IF ~u.isInitialized THEN unitThrows(u, c, "not initialized")
            ELSE [u EXCEPT !.calls = Append(@, [c EXCEPT !.out = [id |-> 2, px |-> arg.frame.px]])]
       [] u.kind = "LowLightCompensation" ->
            [u EXCEPT !.calls = Append(@, [c EXCEPT
                         !.wrote = processCanvas(arg.frame.px) # arg.frame.px,
                         !.out = [id |-> arg.frame.id, px |-> processCanvas(arg.frame.px)]])]
       [] u.kind = "BackgroundBlur" ->
            [u EXCEPT !.calls = Append(@, [c EXCEPT !.out = [id |-> 2, px |-> arg.frame.px]])]

\* destroy(): isInitialized = false, each held reference released and nulled,
\* emit('destroyed')
unitDestroy(u) ==
  [u EXCEPT !.isInitialized = FALSE, !.held = {}, !.log = Append(@, "destroyed"),
            !.calls = Append(@, UnitCall(u, "destroy", NoInput))]

\* getStats(): a new object of primitives, except VoiceFocus', whose
\* frequencyRange is this.config.frequencyRange itself
getStats(u) ==
  [frameCount |-> u.frameCount, currentGain |-> u.currentGain, frequencyRange |-> u.range]

\* what a reader of a getStats() result sees
StatsValue(st, arrays) ==
  [frameCount |-> st.frameCount, currentGain |-> st.currentGain,
   frequencyRange |-> IF st.frequencyRange = 0 THEN <<>> ELSE arrays[st.frequencyRange]]

UnitCanCall == unit.pc = "live" /\ Len(unit.calls) < MaxUnitCalls

UnitInitialize ==
  /\ UnitCanCall
  /\ \E failAt \in 0..Len(Steps(unit.kind)) : unit' = unitInitialize(unit, failAt)
  /\ UNCHANGED <<orchVars, mergeRun, pline, emitter>>

UnitProcess ==
  /\ UnitCanCall
  /\ \E arg \in UnitInputs :
       /\ (unit.kind \in AudioUnits) = (arg.frame.id = 0)
       /\ unit' = unitProcess(unit, arg)
  /\ UNCHANGED <<orchVars, mergeRun, pline, emitter>>

UnitDestroy ==
  /\ UnitCanCall
  /\ unit' = unitDestroy(unit)
  /\ UNCHANGED <<orchVars, mergeRun, pline, emitter>>

UnitGetStats ==
  /\ UnitCanCall
  /\ unit' = [unit EXCEPT !.returned = Append(@, getStats(unit)),
                          !.calls = Append(@, UnitCall(unit, "getStats", NoInput))]
  /\ UNCHANGED <<orchVars, mergeRun, pline, emitter>>

\* the caller writes to a value getStats() returned: a property of the object
\* (stats.frameCount = 99) or an element of an array reachable from it
\* (stats.frequencyRange[0] = 0)
UnitMutateReturned ==
  /\ unit.pc = "live"
  /\ \E i \in 1..Len(unit.returned) :
       \/ /\ unit.returned[i].frameCount # 99
          /\ unit' = [unit EXCEPT !.returned[i].frameCount = 99]
       \/ /\ unit.returned[i].frequencyRange # 0
          /\ unit.arrays[unit.returned[i].frequencyRange][1] # 0
          /\ unit' = [unit EXCEPT !.arrays[unit.returned[i].frequencyRange][1] = 0]
  /\ UNCHANGED <<orchVars, mergeRun, pline, emitter>>

UnitInit ==
  /\ \E kind \in AudioUnits \cup VideoUnits : unit = UnitNew(kind)
  /\ mergeRun = Idle
  /\ pline = Idle
  /\ emitter = Idle
  /\ config = Undefined
  /\ audioProcessor = 0
  /\ videoProcessor = 0
  /\ isProcessing = FALSE
  /\ isDestroyed = FALSE
  /\ events = NoEvents
  /\ pipelines = <<>>
  /\ inits = <<>>
  /\ updates = <<>>
  /\ procs = <<>>
  /\ destroys = <<>>
  /\ destroyedLog = <<>>

UnitNext ==
  \/ UnitInitialize
  \/ UnitProcess
  \/ UnitDestroy
  \/ UnitGetStats
  \/ UnitMutateReturned

UnitSpec == UnitInit /\ [][UnitNext]_vars

(***************************************************************************)
(* EmitterSpec: one EventEmitter.  Of its events 'error' is the one that is *)
(* emitted: this.events['error'] is cur, an index of arrays (0: undefined); *)
(* this.events['destroyed'] is other (empty: undefined) and is only         *)
(* registered to and removed from.  A listener is an index of handlers,     *)
(* regs counts the on() and once() calls, last is the client's latest       *)
(* removal call.                                                            *)
(* emit's forEach visits the indices 1..len of the array object *)
(* it started on, len read once, and skips an index the array no longer    *)
(* has; a dispatch a handler starts runs to its end before the handler     *)
(* returns, so dispatches form a stack.                                    *)
(***************************************************************************)
MaxHandlers == 3
MaxEmits == 2

\* what a registered function does: return, throw, or call emit(name) itself
\* (only given to once(), so that the recursion ends)
ListenerKinds ==
  {[once |-> o, does |-> d] : o \in BOOLEAN, d \in {"returns", "throws"}}
    \cup {[once |-> TRUE, does |-> "emits"]}

\* no removal call since the last registration or emit
NoRemoval == [op |-> "none", e |-> "", id |-> 0]

\* (an off that does not find the function it is given)
offKeepsListener(em, e, id) == em

\* off(event, listener): nothing when this.events[event] is undefined, delete
\* of the entry when no listener is given (id 0), else indexOf + splice and
\* delete of the entry when the array becomes empty
off(em, e, id) ==
  IF e = "error"
  THEN IF em.cur = 0 THEN em
       ELSE IF id = 0 THEN [em EXCEPT !.cur = 0]
       ELSE LET rest == RemoveFirst(em.arrays[em.cur], id)
            IN [em EXCEPT !.arrays[em.cur] = rest,
                          !.cur = IF rest = <<>> THEN 0 ELSE @]
  ELSE IF em.other = <<>> THEN em
       ELSE IF id = 0 THEN [em EXCEPT !.other = <<>>]
       ELSE [em EXCEPT !.other = RemoveFirst(@, id)]

\* (a removeAllListeners that ignores its argument)
removeAllListenersOfAll(em, e) == [em EXCEPT !.cur = 0, !.other = <<>>]

\* removeAllListeners(event): delete of the entry, or a new empty events
\* object when no event is given
removeAllListeners(em, e) ==
  IF e = "error" THEN [em EXCEPT !.cur = 0]
  ELSE IF e = "destroyed" THEN [em EXCEPT !.other = <<>>]
  ELSE [em EXCEPT !.cur = 0, !.other = <<>>]

\* emit(event) up to the forEach: false when this.events[event] is undefined
emit(em, depth) ==
  IF em.cur = 0
  THEN [em EXCEPT !.done = Append(@, [snapshot |-> <<>>, invoked |-> <<>>,
                                      ret |-> FALSE, depth |-> depth])]
  ELSE [em EXCEPT !.stack = Append(@, [arr |-> em.cur, k |-> 1,
                                       len |-> Len(em.arrays[em.cur]),
                                       snapshot |-> em.arrays[em.cur],
                                       invoked |-> <<>>])]

\* on(event, listener) and once(event, listener), called between dispatches:
\* with a new function, or on() with a function that was passed to on()
\* before
EmOn ==
  /\ emitter.stack = <<>>
  /\ emitter.regs < MaxHandlers
  /\ \/ /\ \E h \in ListenerKinds :
             LET id == Len(emitter.handlers) + 1
                 em == [emitter EXCEPT !.handlers = Append(@, h),
                                       !.runs = Append(@, 0), !.regs = @ + 1,
                                       !.last = NoRemoval]
             IN \/ emitter' =
                     IF emitter.cur = 0
                     THEN [em EXCEPT !.arrays = Append(@, <<id>>),
                                     !.cur = Len(emitter.arrays) + 1]
                     ELSE [em EXCEPT !.arrays[emitter.cur] = Append(@, id)]
                \/ /\ ~h.once
                   /\ h.does = "returns"
                   /\ emitter' = [em EXCEPT !.other = Append(@, id)]
     \/ /\ emitter.cur # 0
        /\ \E id \in 1..Len(emitter.handlers) :
             /\ ~emitter.handlers[id].once
             /\ emitter' = [emitter EXCEPT !.arrays[emitter.cur] = Append(@, id),
                                           !.regs = @ + 1, !.last = NoRemoval]
  /\ UNCHANGED <<orchVars, mergeRun, pline, unit>>

\* off(event, listener) by the caller, with a function it passed to on() or
\* with no function (id 0)
EmOff ==
  /\ emitter.stack = <<>>
  /\ \E e \in {"error", "destroyed"}, id \in 0..Len(emitter.handlers) :
       /\ id # 0 => ~emitter.handlers[id].once
       /\ emitter' = [off(emitter, e, id) EXCEPT
                        !.last = [op |-> "off", e |-> e, id |-> id]]
  /\ UNCHANGED <<orchVars, mergeRun, pline, unit>>

\* removeAllListeners(event) and removeAllListeners() by the caller
EmRemoveAll ==
  /\ emitter.stack = <<>>
  /\ \E e \in {"error", "destroyed", "undefined"} :
       emitter' = [removeAllListeners(emitter, e) EXCEPT
                     !.last = [op |-> "removeAllListeners", e |-> e, id |-> 0]]
  /\ UNCHANGED <<orchVars, mergeRun, pline, unit>>

\* emit(event) by the caller
EmEmit ==
  /\ emitter.stack = <<>>
  /\ emitter.emits < MaxEmits
  /\ emitter' = emit([emitter EXCEPT !.emits = @ + 1, !.last = NoRemoval], 1)
  /\ UNCHANGED <<orchVars, mergeRun, pline, unit>>

\* one step of the innermost forEach: the end of the loop (return true), an
\* index the array no longer has, or a listener call.  once's wrapper calls
\* this.off(event, onceWrapper) and then the listener; a throw is caught
\* and logged
EmDispatch ==
  /\ emitter.stack # <<>>
  /\ LET top == Len(emitter.stack)
         f   == emitter.stack[top]
     IN emitter' =
          IF f.k > f.len
          THEN [emitter EXCEPT !.stack = SubSeq(@, 1, top - 1),
                               !.done = Append(@, [snapshot |-> f.snapshot,
                                                   invoked |-> f.invoked,
                                                   ret |-> TRUE, depth |-> top])]
          ELSE IF f.k > Len(emitter.arrays[f.arr])
          THEN [emitter EXCEPT !.stack[top].k = @ + 1]
          ELSE LET id  == emitter.arrays[f.arr][f.k]
                   h   == emitter.handlers[id]
                   em1 == IF h.once THEN off(emitter, "error", id) ELSE emitter
                   em2 == [em1 EXCEPT !.runs[id] = @ + 1,
                                      !.stack[top].k = @ + 1,
                                      !.stack[top].invoked = Append(@, id),
                                      !.caught = IF h.does = "throws" THEN @ + 1 ELSE @]
               IN IF h.does = "emits" THEN emit(em2, top + 1) ELSE em2
  /\ UNCHANGED <<orchVars, mergeRun, pline, unit>>

EmitterInit ==
  /\ emitter = [pc |-> "live", arrays |-> <<>>, cur |-> 0, handlers |-> <<>>,
                runs |-> <<>>, stack |-> <<>>, done |-> <<>>, emits |-> 0,
                caught |-> 0, other |-> <<>>, regs |-> 0,
                last |-> NoRemoval]
  /\ mergeRun = Idle
  /\ pline = Idle
  /\ unit = Idle
  /\ config = Undefined
  /\ audioProcessor = 0
  /\ videoProcessor = 0
  /\ isProcessing = FALSE
  /\ isDestroyed = FALSE
  /\ events = NoEvents
  /\ pipelines = <<>>
  /\ inits = <<>>
  /\ updates = <<>>
  /\ procs = <<>>
  /\ destroys = <<>>
  /\ destroyedLog = <<>>

EmitterNext ==
  \/ EmOn
  \/ EmOff
  \/ EmRemoveAll
  \/ EmEmit
  \/ EmDispatch

EmitterSpec == EmitterInit /\ [][EmitterNext]_vars

(***************************************************************************)
(* Properties                                                               *)
(***************************************************************************)
\* a process() call that passed the destroyed guard and the input validation
Passed(r) == ~r.afterDestroy /\ r.arg.valid

RejectedWith(r, e) == r.pc = "done" /\ r.result = [kind |-> "rejected", stream |-> 0, err |-> e]

DestroyCompleted == \E j \in 1..Len(destroys) : destroys[j].pc = "done"

NoInitInFlight ==
  /\ \A t \in 1..Len(inits) : inits[t].pc = "done" /\ inits[t].out = "initialized"
  /\ \A u \in 1..Len(updates) : updates[u].pc = "done"

C1_Calls ==
  /\ \A i \in 1..Len(procs) :
        procs[i].afterDestroy => RejectedWith(procs[i], "destroyed") /\ procs[i].log = <<>>
  /\ \A u \in 1..Len(updates) :
        updates[u].afterDestroy => updates[u].pc = "done" /\ updates[u].result = "destroyed"

\* C1: every process() and updateConfig() call made after destroy() was
\* called fails with the destroyed error, whatever its argument, and
\* isDestroyed never goes back from true to false.
C1_DestroyedFailsFast == [](C1_Calls) /\ [][isDestroyed => isDestroyed']_vars

C1_Witness ==
  /\ \E i \in 1..Len(procs) : procs[i].afterDestroy /\ procs[i].arg.valid
  /\ \E u \in 1..Len(updates) : updates[u].afterDestroy
  /\ isDestroyed

\* C2: after destroy() has completed the orchestrator references no audio
\* and no video pipeline, and no pipeline it ever created is still
\* initialized, for every interleaving with initializeProcessors().
C2_NoPipelineAfterDestroy ==
  DestroyCompleted =>
    /\ audioProcessor = 0
    /\ videoProcessor = 0
    /\ \A p \in 1..Len(pipelines) : ~pipelines[p].isInitialized

C3_State ==
  DestroyCompleted =>
    /\ isDestroyed
    /\ ~isProcessing
    /\ audioProcessor = 0
    /\ videoProcessor = 0
    /\ \A p \in 1..Len(pipelines) :
          pipelines[p].destroyCalls > 0 => ~pipelines[p].isInitialized
    /\ Len(destroyedLog) = 1

C3_Step ==
  (Len(destroyedLog') > Len(destroyedLog)) =>
    /\ events' = NoEvents
    /\ destroyedLog' = Append(destroyedLog, events["destroyed"])

\* C3: once the destroy() calls have completed the state is that of a single
\* call: isDestroyed true, isProcessing false, both pipelines torn down and
\* null, 'destroyed' emitted exactly once, and the subscriptions are cleared
\* by the step that emits it.
C3_DestroyIdempotent == [](C3_State) /\ [][C3_Step]_vars

\* C4: after an updateConfig() that changed the configuration has resolved,
\* every pipeline the orchestrator no longer references has been torn down.
C4_OldPipelinesTornDown ==
  \A u \in 1..Len(updates) :
    (updates[u].result = "resolved" /\ updates[u].reinit) =>
      \A p \in 1..Len(pipelines) :
        p \notin {audioProcessor, videoProcessor} => pipelines[p].destroyCalls > 0

AudioModuleEnabled(cfg) ==
  \E m \in {"noiseSuppression", "agc", "voiceFocus"} :
    Get(Get(Get(cfg, "audio"), m), "enabled") = Bool(TRUE)

VideoModuleEnabled(cfg) ==
  \E m \in {"colorCorrection", "lowLightCompensation", "backgroundBlur"} :
    Get(Get(Get(cfg, "video"), m), "enabled") = Bool(TRUE)

\* C5: after the construction-time initialization and after every completed
\* updateConfig, an audio (video) pipeline is held iff an audio (video)
\* module is enabled, and the pipelines of a domain without enabled feature
\* are destroyed.
C5_PipelineIffFeature ==
  (NoInitInFlight /\ ~isDestroyed) =>
    /\ (audioProcessor # 0) <=> AudioModuleEnabled(config)
    /\ (videoProcessor # 0) <=> VideoModuleEnabled(config)
    /\ \A p \in 1..Len(pipelines) :
          (pipelines[p].domain = "audio" /\ ~AudioModuleEnabled(config))
            => pipelines[p].destroyCalls > 0
    /\ \A p \in 1..Len(pipelines) :
          (pipelines[p].domain = "video" /\ ~VideoModuleEnabled(config))
            => pipelines[p].destroyCalls > 0

\* the paths of the leaves (primitives and arrays) of a configuration value
RECURSIVE LeafPaths(_, _)
LeafPaths(v, prefix) ==
  IF v.k = "object"
  THEN UNION {LeafPaths(v.o[i].val, Append(prefix, v.o[i].key)) : i \in 1..Len(v.o)}
  ELSE {prefix}

RECURSIVE GetPath(_, _)
GetPath(v, path) == IF path = <<>> THEN v ELSE GetPath(Get(v, Head(path)), Tail(path))

IsPrefix(a, b) == Len(a) <= Len(b) /\ SubSeq(b, 1, Len(a)) = a

\* new is old with exactly the leaves of partial overwritten
MergedInto(old, new, partial) ==
  LET named == LeafPaths(partial, <<>>)
  IN /\ \A q \in named : GetPath(new, q) = GetPath(partial, q)
     /\ \A q \in LeafPaths(old, <<>>) :
          (\A n \in named : ~IsPrefix(n, q) /\ ~IsPrefix(q, n))
            => GetPath(new, q) = GetPath(old, q)

\* an updateConfig() call that passed the destroyed guard is being made
UpdateStep ==
  /\ Len(updates') = Len(updates) + 1
  /\ updates'[Len(updates')].result # "destroyed"

C6_Step ==
  UpdateStep =>
    LET partial == updates'[Len(updates')].arg
    IN /\ MergedInto(config, config', partial)
       /\ partial = cfgEmpty =>
            (config' = config /\ ~updates'[Len(updates')].reinit)

\* C6: updateConfig(partial) deep-merges partial into the current
\* configuration: the leaves named in partial get their new value, every
\* other leaf keeps the value it had before the call (overrides given at
\* construction included), and updateConfig({}) changes nothing and triggers
\* no re-initialization.
C6_UpdateMergesIntoCurrent == [][C6_Step]_vars

Started(r) == Len(r.log) >= 1 /\ r.log[1].ev = "processing:start"

CompleteOutcome(r) ==
  /\ r.log[2].ev = "processing:complete"
  /\ r.result.kind = "resolved"
  /\ r.log[2].stream = r.result.stream
  /\ ~r.log[2].during

ErrorOutcome(r) ==
  /\ r.log[2].ev = "error"
  /\ r.result.kind = "rejected"
  /\ r.stage.state = "failed"
  /\ r.log[2].err = r.stage.err
  /\ r.result.err = r.stage.err
  /\ ~r.log[2].during

\* C7: a process() call that passed both guards emits 'processing:start'
\* first and then has exactly one outcome: it resolves with the stream that
\* 'processing:complete' carries, or it rejects with the stage's error, which
\* the 'error' event carries; isProcessing is false when the outcome event is
\* emitted.
C7_OneOutcome ==
  \A i \in 1..Len(procs) :
    Passed(procs[i]) =>
      /\ Started(procs[i])
      /\ IF procs[i].pc = "done"
         THEN Len(procs[i].log) = 2 /\ (CompleteOutcome(procs[i]) \/ ErrorOutcome(procs[i]))
         ELSE Len(procs[i].log) = 1 /\ procs[i].result.kind = "pending"

C7_Witness ==
  \E i \in 1..Len(procs) :
    /\ Passed(procs[i])
    /\ procs[i].pc = "done"
    /\ procs[i].audioInvoked
    /\ procs[i].videoInvoked
    /\ procs[i].result.kind = "resolved"

\* C8: the audio (video) pipeline's process() is invoked iff an audio
\* (video) pipeline exists and the input stream has an audio (video) track;
\* when both run the video stage starts after the audio stage and is given
\* the stream the audio stage returned.
C8_StageGating ==
  \A i \in 1..Len(procs) :
    Passed(procs[i]) =>
      /\ procs[i].aExists # "na" =>
            (procs[i].audioInvoked <=>
               (procs[i].aExists = "yes" /\ procs[i].arg.stream.audio > 0))
      /\ procs[i].vExists # "na" =>
            (procs[i].videoInvoked <=>
               (procs[i].vExists = "yes" /\ procs[i].arg.stream.video > 0))
      /\ (procs[i].audioInvoked /\ procs[i].videoInvoked) =>
            (procs[i].vInput # procs[i].arg.stream.id /\ procs[i].vInput = 10 * i + 1)

\* C9: process() of a stream without audio and without video track, with
\* features of both domains enabled, returns the stream object it was given,
\* emits 'processing:complete' carrying it and invokes neither pipeline.
C9_EmptyStreamPassthrough ==
  \A i \in 1..Len(procs) :
    (/\ Passed(procs[i])
     /\ procs[i].arg.stream.audio = 0
     /\ procs[i].arg.stream.video = 0
     /\ procs[i].features = <<TRUE, TRUE>>) =>
      /\ procs[i].pc = "done"
      /\ procs[i].result = [kind |-> "resolved", stream |-> procs[i].arg.stream.id, err |-> ""]
      /\ Len(procs[i].log) = 2
      /\ procs[i].log[1].ev = "processing:start"
      /\ procs[i].log[2].ev = "processing:complete"
      /\ procs[i].log[2].stream = procs[i].arg.stream.id
      /\ ~procs[i].audioInvoked
      /\ ~procs[i].videoInvoked

C9_Witness ==
  \E i \in 1..Len(procs) :
    /\ Passed(procs[i])
    /\ procs[i].arg.stream.audio = 0
    /\ procs[i].arg.stream.video = 0
    /\ procs[i].features = <<TRUE, TRUE>>
    /\ procs[i].aExists = "yes"
    /\ procs[i].vExists = "yes"
    /\ procs[i].pc = "done"

C10_Calls ==
  \A i \in 1..Len(procs) :
    (~procs[i].afterDestroy /\ ~procs[i].arg.valid) =>
      /\ RejectedWith(procs[i], "invalid")
      /\ procs[i].log = <<>>
      /\ ~procs[i].audioInvoked
      /\ ~procs[i].videoInvoked

C10_Step ==
  (/\ Len(procs') = Len(procs) + 1
   /\ ~procs'[Len(procs')].arg.valid
   /\ ~isDestroyed) =>
    UNCHANGED <<config, audioProcessor, videoProcessor, isProcessing, isDestroyed,
                events, pipelines, inits, updates, destroys, destroyedLog>>

\* C10: on a non-destroyed orchestrator process(x) with x not a media stream
\* fails with the invalid-input error and changes nothing: isProcessing is
\* unchanged, no pipeline is invoked or created, no event is emitted.
C10_InvalidInputFailsFirst == [](C10_Calls) /\ [][C10_Step]_vars

C10_Witness ==
  \E i \in 1..Len(procs) :
    /\ ~procs[i].afterDestroy
    /\ ~procs[i].arg.valid
    /\ RejectedWith(procs[i], "invalid")
    /\ audioProcessor # 0

\* C11: when the initialization an updateConfig() call triggered fails, an
\* 'error' event is emitted and the updateConfig() call rejects; it does not
\* resolve and emit 'config:updated'.
C11_InitFailureRejects ==
  \A u \in 1..Len(updates) :
    (/\ updates[u].reinit
     /\ updates[u].pc = "done"
     /\ inits[updates[u].task].out = "error") =>
      updates[u].result = "rejected"

\* the reference recursive merge: two objects are merged key by key (the
\* default's keys first, then the override's new keys), anything else is
\* replaced by the override
RECURSIVE RefMerge(_, _)
RefMerge(d, o) ==
  IF d.k = "object" /\ o.k = "object"
  THEN LET kept == [i \in 1..Len(d.o) |->
                      IF HasKey(o.o, d.o[i].key)
                      THEN KV(d.o[i].key, RefMerge(d.o[i].val, Get(o, d.o[i].key)))
                      ELSE d.o[i]]
           added == SelectSeq(o.o, LAMBDA e : ~HasKey(d.o, e.key))
       IN Obj(kept \o added)
  ELSE o

\* the key paths of a configuration value, inner objects included
RECURSIVE KeyPaths(_, _)
KeyPaths(v, prefix) ==
  IF v.k = "object"
  THEN UNION {{Append(prefix, v.o[i].key)} \cup KeyPaths(v.o[i].val, Append(prefix, v.o[i].key))
              : i \in 1..Len(v.o)}
  ELSE {}

C12_Reference == mergeRun.pc = "merged" => mergeRun.result = RefMerge(mergeRun.target, mergeRun.source)

C12_DefaultKeys ==
  mergeRun.pc = "merged" =>
    KeyPaths(mergeRun.target, <<>>) \subseteq KeyPaths(mergeRun.result, <<>>)

C12_EmptyIdentity ==
  (mergeRun.pc = "merged" /\ mergeRun.source = cfgEmpty) => mergeRun.result = mergeRun.target

\* C12: deepMerge(default, override) equals the reference recursive merge:
\* every default key is present in the result, the override's leaves win,
\* unspecified leaves keep their defaults, nested objects merge field by
\* field, arrays and primitives replace wholesale, unknown keys are kept, and
\* merging {} returns a configuration equal to the default.
C12_MergeMatchesReference == C12_Reference /\ C12_DefaultKeys /\ C12_EmptyIdentity

\* the features the caller gave as the boolean true, per domain
GivenTrue(source, domain, mods) == {m \in mods : Get(Get(source, domain), m) = Bool(TRUE)}

DomainCreated(domain) ==
  \E p \in 1..Len(mergeRun.created) : mergeRun.created[p].domain = domain

\* C13: a MediaProcessor constructed with a feature given as the boolean true
\* (the README quick start) has that feature enabled: hasAudioFeatures() /
\* hasVideoFeatures() is true for its domain, and the domain's pipeline and the
\* feature's module are created.
C13_BooleanFormEnables ==
  (mergeRun.pc = "modules" /\ mergeRun.source \in ReadmeConfigs) =>
    /\ GivenTrue(mergeRun.source, "audio", AudioModules) # {} =>
         (mergeRun.features[1] /\ DomainCreated("audio"))
    /\ GivenTrue(mergeRun.source, "video", VideoModules) # {} =>
         (mergeRun.features[2] /\ DomainCreated("video"))
    /\ GivenTrue(mergeRun.source, "audio", AudioModules) \subseteq mergeRun.modules
    /\ GivenTrue(mergeRun.source, "video", VideoModules) \subseteq mergeRun.modules

PipeProcessCalls == {t \in 1..Len(pline.tasks) : pline.tasks[t].op = "process"}

C15_Calls ==
  \A t \in PipeProcessCalls :
    LET c == pline.tasks[t]
    IN /\ (~c.everReady \/ c.destroyed) =>
            (c.pc = "done" /\ c.result = "rejected" /\ c.err = "not initialized")
       /\ (c.everReady /\ ~c.destroyed /\ ~c.arg.valid) =>
            (c.pc = "done" /\ c.result = "rejected" /\ c.err = "invalid")

C15_Step ==
  (/\ Len(pline'.tasks) = Len(pline.tasks) + 1
   /\ pline'.tasks[Len(pline'.tasks)].op = "process"
   /\ pline'.tasks[Len(pline'.tasks)].err \in {"not initialized", "invalid"}) =>
    [pline' EXCEPT !.tasks = pline.tasks] = pline

\* C15: the pipeline's process() fails with the not-initialized error when
\* initialize() has not completed successfully (never called, in flight,
\* failed) or the pipeline was destroyed, and with the invalid-input error
\* when its argument is not a media stream; such a call emits no event, leaves
\* isProcessing as it was and starts no loop.
C15_PipelineProcessGuards == [](C15_Calls) /\ [][C15_Step]_vars

\* C16: on an initialized pipeline, process(stream) of a stream without a
\* track of the pipeline's domain resolves with the stream object it was
\* given.
C16_NoTrackPassthrough ==
  \A t \in PipeProcessCalls :
    LET c == pline.tasks[t]
    IN (c.flag /\ c.arg.valid /\ DomainTracks(pline.kind, c.arg.stream) = 0) =>
         (c.pc = "done" /\ c.result = "resolved" /\ c.out = c.arg.stream)

C16_Witness ==
  \E t \in PipeProcessCalls :
    /\ pline.tasks[t].flag
    /\ pline.tasks[t].arg.valid
    /\ DomainTracks(pline.kind, pline.tasks[t].arg.stream) = 0
    /\ pline.tasks[t].result = "resolved"
    /\ pline.tasks[t].held > 0

\* C17: an AudioProcessor with no module enabled still becomes initialized
\* (unless the browser refuses the AudioContext), and with no module held its
\* process() of a stream with an audio track succeeds (unless a call into the
\* browser fails).
C17_EmptyChainPassthrough ==
  pline.kind = "audio" =>
    \A t \in 1..Len(pline.tasks) :
      LET c == pline.tasks[t]
      IN /\ (c.op = "initialize" /\ c.enabled = 0 /\ c.seq /\ c.pc = "done") =>
              (c.result = "resolved" \/ c.err = "backend")
         /\ (c.op = "process" /\ c.flag /\ c.held = 0 /\ c.arg.valid
             /\ c.arg.stream.audio > 0) =>
              (c.result = "resolved" \/ c.err = "backend")

\* C19: after destroy() was called twice, one call after the other, neither
\* call has thrown, the pipeline is not initialized, every reference acquired
\* in initialize() is null and nothing was released twice.
C19_DestroyTwice ==
  (/\ Len(pline.tasks) >= 2
   /\ \A t \in 1..Len(pline.tasks) : pline.tasks[t].pc = "done" /\ pline.tasks[t].seq
   /\ pline.tasks[Len(pline.tasks)].op = "destroy"
   /\ pline.tasks[Len(pline.tasks) - 1].op = "destroy") =>
    /\ pline.tasks[Len(pline.tasks)].result = "resolved"
    /\ pline.tasks[Len(pline.tasks) - 1].result = "resolved"
    /\ ~pline.isInitialized
    /\ ~pline.isProcessing
    /\ \A r \in DOMAIN pline.res : ~pline.res[r]
    /\ \A f \in DOMAIN pline.slots : pline.slots[f] = 0
    /\ pline.src = 0
    /\ pline.dst = 0
    /\ pline.closes <= 1
    /\ \A id \in 1..Len(pline.objs) : pline.objs[id].destroys <= 1

C14_NoSharing ==
  \A i \in 1..Len(unit.returned) :
    unit.returned[i].frequencyRange = 0 \/ unit.returned[i].frequencyRange # unit.range

C14_Step ==
  (unit'.calls = unit.calls /\ (unit'.returned # unit.returned \/ unit'.arrays # unit.arrays)) =>
    StatsValue(getStats(unit'), unit'.arrays) = StatsValue(getStats(unit), unit.arrays)

\* C14: a value returned by getStats() shares no array with the module's
\* internal state, and a write to a returned value (one of its properties or
\* an element of an array reachable from it) does not change what a later
\* getStats() reports.
C14_IndependentCopies == [](C14_NoSharing) /\ [][C14_Step]_vars

UnitCalled(op) ==
  /\ Len(unit'.calls) = Len(unit.calls) + 1
  /\ unit'.calls[Len(unit'.calls)].op = op

\* C18: a module's process(unit) called while the module is not initialized
\* (before initialize() or after destroy()) fails with the not-initialized
\* error, writes nothing to the unit's data, changes no counter or state of
\* the module and emits no event.
C18_ProcessBeforeInitialize ==
  [][(UnitCalled("process") /\ ~unit.isInitialized) =>
       /\ unit'.calls[Len(unit'.calls)].result = "rejected"
       /\ unit'.calls[Len(unit'.calls)].err = "not initialized"
       /\ ~unit'.calls[Len(unit'.calls)].wrote
       /\ [unit' EXCEPT !.calls = unit.calls] = unit]_vars

C20_Later ==
  \A t \in 1..Len(unit.calls) :
    (/\ unit.calls[t].op = "initialize"
     /\ ~unit.calls[t].flag
     /\ unit.calls[t].result = "rejected") =>
      \A v \in (t + 1)..Len(unit.calls) :
        (/\ unit.calls[v].op = "process"
         /\ \A w \in (t + 1)..(v - 1) : unit.calls[w].op # "initialize") =>
          (unit.calls[v].result = "rejected" /\ unit.calls[v].err = "not initialized")

C20_Step ==
  (/\ UnitCalled("initialize")
   /\ ~unit.isInitialized
   /\ unit'.calls[Len(unit'.calls)].result = "rejected") =>
    (unit'.log = Append(unit.log, "error") /\ ~unit'.isInitialized)

\* C20: when initialize() of a module that is not initialized fails, the call
\* emits 'error' and rejects, isInitialized stays false, and every process()
\* that follows before the next initialize() fails with the not-initialized
\* error.
C20_InitializeFailure == [](C20_Later) /\ [][C20_Step]_vars

\* C21: every dispatch that has returned invoked the handlers registered when
\* emit was called, each once and in registration order, and returned true
\* iff there was one.
C21_EmitInvokesAll ==
  \A d \in 1..Len(emitter.done) :
    /\ emitter.done[d].invoked = emitter.done[d].snapshot
    /\ emitter.done[d].ret = (emitter.done[d].snapshot # <<>>)

\* C22: in every dispatch that has returned and in which a handler threw, the
\* handlers registered after that handler ran as well, and emit returned
\* true (no dispatch ends by an exception).
C22_ThrowDoesNotStopDispatch ==
  \A d \in 1..Len(emitter.done) :
    LET snap == emitter.done[d].snapshot
        ran  == {emitter.done[d].invoked[i] : i \in 1..Len(emitter.done[d].invoked)}
    IN \A i \in 1..Len(snap) :
         (snap[i] \in ran /\ emitter.handlers[snap[i]].does = "throws") =>
           /\ emitter.done[d].ret
           /\ \A j \in (i + 1)..Len(snap) : snap[j] \in ran

\* C23: a handler registered with once() has been invoked at most once, also
\* when it calls emit itself, and is not registered once it has been invoked.
C23_OnceAtMostOnce ==
  \A id \in 1..Len(emitter.handlers) :
    emitter.handlers[id].once =>
      /\ emitter.runs[id] <= 1
      /\ (emitter.runs[id] = 1 /\ emitter.cur # 0) =>
           \A i \in 1..Len(emitter.arrays[emitter.cur]) :
             emitter.arrays[emitter.cur][i] # id

C23_Witness ==
  /\ emitter.emits = MaxEmits
  /\ emitter.stack = <<>>
  /\ \E id \in 1..Len(emitter.handlers) :
       /\ emitter.handlers[id].does = "emits"
       /\ emitter.runs[id] = 1
       /\ \E d \in 1..Len(emitter.done) :
            emitter.done[d].depth = 2 /\ emitter.done[d].ret

\* C24: when setFeature(x, false) and then setFeature(x, true) have resolved,
\* one after the other, on an initialized pipeline that held x's module, the
\* pipeline has the same modules in the same fields, the same connections,
\* the same ends of the chain and the same enabled flags as before the two
\* calls, with x's new module in the place of the old one.
C24_ToggleRestores ==
  \A t \in 1..(Len(pline.tasks) - 1) :
    LET a   == pline.tasks[t]
        b   == pline.tasks[t + 1]
        old == a.before.slots[a.arg.f]
        new == pline.slots[a.arg.f]
        ren(id) == IF id = old THEN new ELSE id
    IN (/\ t + 1 = Len(pline.tasks)
        /\ a.op = "setFeature" /\ b.op = "setFeature"
        /\ a.arg.f = b.arg.f /\ ~a.arg.on /\ b.arg.on
        /\ a.flag /\ a.seq /\ b.seq
        /\ b.pc = "done" /\ a.result = "resolved" /\ b.result = "resolved"
        /\ old # 0) =>
         /\ new # 0 /\ new # old
         /\ \A f \in DOMAIN pline.slots : f # a.arg.f => pline.slots[f] = a.before.slots[f]
         /\ pline.enabled = a.before.enabled
         /\ pline.src = ren(a.before.src)
         /\ pline.dst = ren(a.before.dst)
         /\ pline.edges = {<<ren(e[1]), ren(e[2])>> : e \in a.before.edges}

\* C25: a frame-stream loop in which a frame's transform or write has failed
\* goes on with the next frame: as long as the pipeline was not destroyed it
\* is either still scheduled or has ended because the track was exhausted.
C25_FrameErrorKeepsLoop ==
  \A l \in 1..Len(pline.loops) :
    (/\ pline.loops[l].kind = "frames"
     /\ pline.loops[l].errors > 0
     /\ ~DestroyedSince(pline, pline.loops[l].task)) =>
      (pline.loops[l].pending \/ pline.loops[l].stop = "exhausted")

\* destroy() was the last call made on the pipeline and has completed
PipeAtRest ==
  /\ pline.tasks # <<>>
  /\ pline.tasks[Len(pline.tasks)].op = "destroy"
  /\ \A t \in 1..Len(pline.tasks) : pline.tasks[t].pc = "done"
  /\ ~pline.isProcessing
  /\ ~pline.isInitialized

\* C26: once destroy() has completed, no loop of the pipeline performs
\* another iteration.
C26_NoIterationAfterDestroy ==
  [][PipeAtRest => \A l \in 1..Len(pline.loops) :
                     pline'.loops[l].iter = pline.loops[l].iter]_vars

\* C27: the audio monitoring loop and the canvas render loop stop only
\* because of destroy(): none ends while the pipeline has not been destroyed
\* since the process() call that started it.
C27_LoopsRunUntilDestroy ==
  \A l \in 1..Len(pline.loops) :
    pline.loops[l].kind \in {"monitor", "canvas"} => pline.loops[l].stop # "idle"

\* C28: when a process() call that passed its guards returns or throws, and
\* no other process() call is in flight, isProcessing is false.
C28_ProcessReturnsToReady ==
  [][\A t \in 1..Len(pline'.tasks) :
       (/\ pline'.tasks[t].op = "process"
        /\ pline'.tasks[t].pc = "done"
        /\ (t > Len(pline.tasks) \/ pline.tasks[t].pc # "done")
        /\ pline'.tasks[t].err \notin {"not initialized", "invalid"}
        /\ \A u \in 1..Len(pline'.tasks) :
             pline'.tasks[u].op = "process" => pline'.tasks[u].pc = "done") =>
         ~pline'.isProcessing]_vars

\* C29: once destroy() has been called on a pipeline, no step sets
\* isInitialized to true and no step creates a module.
C29_DestroyedIsTerminal ==
  [][(\E t \in 1..Len(pline.tasks) : pline.tasks[t].op = "destroy") =>
       /\ pline'.isInitialized => pline.isInitialized
       /\ pline'.objs = pline.objs]_vars

\* the fields of the enabled features, in the fixed order
EnabledNodes ==
  SelectSeq([j \in 1..3 |-> pline.slots[Order(pline.kind)[j]]],
            LAMBDA id : id # 0 /\ pline.objs[id].f \in pline.enabled)

PipeJustInitialized ==
  /\ pline.kind = "audio"
  /\ pline.tasks # <<>>
  /\ pline.tasks[Len(pline.tasks)].op = "initialize"
  /\ pline.tasks[Len(pline.tasks)].seq
  /\ pline.tasks[Len(pline.tasks)].pc = "done"
  /\ pline.tasks[Len(pline.tasks)].result = "resolved"

\* C30: when AudioProcessor.initialize() has succeeded, every enabled feature
\* has its module, in the order noiseSuppression, agc, voiceFocus each module
\* is connected to the next one and to nothing else, sourceNode is the first
\* and destinationNode the last of them.
C30_ChainAfterInitialize ==
  PipeJustInitialized =>
    /\ Len(EnabledNodes) = Cardinality(pline.enabled)
    /\ \A k \in 1..Len(EnabledNodes) :
         {e[2] : e \in {d \in pline.edges : d[1] = EnabledNodes[k]}} =
           IF k < Len(EnabledNodes) THEN {EnabledNodes[k + 1]} ELSE {}
    /\ EnabledNodes # <<>> =>
         (pline.src = EnabledNodes[1] /\ pline.dst = EnabledNodes[Len(EnabledNodes)])

C30_Witness ==
  /\ PipeJustInitialized
  /\ Cardinality(pline.enabled) = 3
  /\ Cardinality(pline.edges) >= 2

\* C36: MediaProcessor.isProcessing is true exactly while at least one
\* process() call is between its 'processing:start' and its outcome, also
\* when two calls overlap and one of them finishes first.
C36_IsProcessingWhileInFlight ==
  isProcessing <=> \E i \in 1..Len(procs) : Started(procs[i]) /\ procs[i].pc # "done"

\* initialize() and then only setFeature() calls were made on the audio
\* pipeline, one after the other, and all of them have resolved
OnlyTogglesCompleted ==
  /\ pline.kind = "audio"
  /\ Len(pline.tasks) >= 2
  /\ pline.tasks[1].op = "initialize"
  /\ \A t \in 1..Len(pline.tasks) :
       /\ pline.tasks[t].pc = "done"
       /\ pline.tasks[t].seq
       /\ pline.tasks[t].result = "resolved"
       /\ t > 1 => pline.tasks[t].op = "setFeature"

\* C31: after any sequence of completed AudioProcessor.setFeature calls the
\* connections are exactly the consecutive pairs of the modules the pipeline
\* holds, sourceNode and destinationNode are the first and the last of them
\* and neither refers to a destroyed module, also when no module is left.
C31_ChainAfterToggles ==
  OnlyTogglesCompleted =>
    LET nodes == heldNodes(pline)
    IN /\ pline.edges = {<<nodes[k], nodes[k + 1]>> : k \in 1..(Len(nodes) - 1)}
       /\ nodes # <<>> => (pline.src = nodes[1] /\ pline.dst = nodes[Len(nodes)])
       /\ pline.src # 0 => pline.objs[pline.src].destroys = 0
       /\ pline.dst # 0 => pline.objs[pline.dst].destroys = 0

\* every call made on the pipeline was made after the one before it had
\* completed, and the last one has completed
PipeSequentialDone ==
  /\ pline.pc = "live"
  /\ pline.tasks # <<>>
  /\ \A t \in 1..Len(pline.tasks) : pline.tasks[t].pc = "done" /\ pline.tasks[t].seq

\* C32: in an initialized pipeline with no operation in flight, after a
\* resolved initialize() or setFeature(), a feature's field holds a module
\* exactly if the feature's enabled flag is true; after destroy() no field
\* holds a module and no module of the pipeline is still initialized.
C32_ModulesMatchFlags ==
  PipeSequentialDone =>
    LET last == pline.tasks[Len(pline.tasks)]
    IN /\ (/\ pline.isInitialized
           /\ last.op \in {"initialize", "setFeature"}
           /\ last.result = "resolved") =>
             \A f \in DOMAIN pline.slots : pline.slots[f] # 0 <=> f \in pline.enabled
       /\ last.op = "destroy" =>
             /\ \A f \in DOMAIN pline.slots : pline.slots[f] = 0
             /\ \A id \in 1..Len(pline.objs) : ~pline.objs[id].ready

\* this.events[e] of an emitter (empty: undefined)
C37_Listeners(em, e) ==
  IF e = "error" THEN (IF em.cur = 0 THEN <<>> ELSE em.arrays[em.cur]) ELSE em.other

C37_Step ==
  (emitter.stack = <<>> /\ emitter'.stack = <<>> /\ emitter'.last.op # "none") =>
    LET c == emitter'.last
        before(e) == C37_Listeners(emitter, e)
        after(e) == C37_Listeners(emitter', e)
    IN /\ emitter'.handlers = emitter.handlers
       /\ \A e \in {"error", "destroyed"} :
            IF c.op = "off" /\ c.e = e /\ c.id # 0
            THEN IF \E k \in 1..Len(before(e)) : before(e)[k] = c.id
                 THEN \E k \in 1..Len(before(e)) :
                        /\ before(e)[k] = c.id
                        /\ \A j \in 1..(k - 1) : before(e)[j] # c.id
                        /\ after(e) = SubSeq(before(e), 1, k - 1)
                                        \o SubSeq(before(e), k + 1, Len(before(e)))
                 ELSE after(e) = before(e)
            ELSE IF c.e \in {e, "undefined"}
                 THEN after(e) = <<>>
                 ELSE after(e) = before(e)

C38_Range ==
  unit.pc = "live" /\ unit.kind = "AutomaticGainControl" =>
    /\ 100 <= unit.targetGain /\ unit.targetGain <= 10000
    /\ 100 <= unit.currentGain /\ unit.currentGain <= 10000

C38_Step ==
  (/\ unit.pc = "live" /\ unit.kind = "AutomaticGainControl"
   /\ Len(unit'.calls) = Len(unit.calls) + 1
   /\ unit'.calls[Len(unit'.calls)].op = "process") =>
    LET k == IF unit'.targetGain > unit.currentGain
             THEN unit.attackCoeff ELSE unit.releaseCoeff
    IN unit'.currentGain * 1000 <= unit.currentGain * k + unit'.targetGain * (1000 - k)
       /\ unit.currentGain * k + unit'.targetGain * (1000 - k) < (unit'.currentGain + 1) * 1000

C39_BrightPixelsKept ==
  unit.pc = "live" /\ unit.kind = "LowLightCompensation" =>
    \A i \in 1..Len(unit.calls) :
      unit.calls[i].op = "process" =>
        LET p == unit.calls[i].arg.frame.px
            q == unit.calls[i].out.px
        IN /\ unit.calls[i].result = "resolved"
           /\ unit.calls[i].out.id = unit.calls[i].arg.frame.id
           /\ Len(q) = Len(p)
           /\ q[4] = p[4]
           /\ \A c \in 1..3 : 0 <= q[c] /\ q[c] <= 255
           /\ 299 * p[1] + 587 * p[2] + 114 * p[3] >= 255 * 300 => q = p

C39_Witness ==
  /\ unit.pc = "live" /\ unit.kind = "LowLightCompensation"
  /\ \E i, j, k \in 1..Len(unit.calls) :
       /\ unit.calls[i].op = "process"
       /\ unit.calls[i].arg.frame.px = <<50, 100, 25, 128>>
       /\ unit.calls[i].out.px = <<50, 100, 25, 128>>
       /\ unit.calls[j].op = "process"
       /\ unit.calls[j].arg.frame.px = <<0, 0, 255, 0>>
       /\ unit.calls[j].out.px = <<0, 0, 255, 0>>
       /\ unit.calls[k].op = "process"
       /\ unit.calls[k].arg.frame.px = <<40, 40, 40, 255>>
       /\ unit.calls[k].out.px = <<50, 50, 50, 255>>

\* the frame-stream loops of the pipeline
FrameLoops == {l \in 1..Len(pline.loops) : pline.loops[l].kind = "frames"}

C33_Chain ==
  pline.pc = "live" =>
    \A l \in FrameLoops :
      LET lp == pline.loops[l]
      IN /\ Len(lp.tests) <= 3
         /\ \A k \in 1..Len(lp.tests) :
              lp.tests[k] # 0 =>
                pline.objs[lp.tests[k]].f =
                  <<"lowLightCompensation", "colorCorrection", "backgroundBlur">>[k]
         /\ lp.ran = SelectSeq(lp.tests, LAMBDA id : id # 0)
         /\ lp.phase = "write" => Len(lp.tests) = 3

C33_Step ==
  pline.pc = "live" =>
    \A l \in FrameLoops :
      LET lp   == pline.loops[l]
          lq   == pline'.loops[l]
          base == IF lq.reads # lp.reads THEN 0 ELSE Len(lp.tests)
      IN \A k \in (base + 1)..Len(lq.tests) :
           lq.tests[k] =
             pline.slots[<<"lowLightCompensation", "colorCorrection", "backgroundBlur">>[k]]

C35_Step ==
  pline.pc = "live" =>
    \A l \in FrameLoops :
      LET lp   == pline.loops[l]
          lq   == pline'.loops[l]
          base == IF lq.reads # lp.reads THEN 0 ELSE Len(lp.ran)
      IN /\ \A k \in (base + 1)..Len(lq.ran) : pline.objs[lq.ran[k]].destroys = 0
         /\ (lq.threw # 0 /\ lp.threw = 0) => pline.objs[lq.threw].destroys = 0

\* C35: no step of the frame-stream loop invokes process() on a module whose
\* destroy() has run, and no loop ends in its catch block because of a module
\* that setFeature(x, false) or destroy() has destroyed.
C35_NoDestroyedModuleInvoked == [][C35_Step]_vars

====
